---- MODULE Spec2Model ----
(***************************************************************************)
(* Ingestion pipeline and job tracking of the warehouse vector service.    *)
(*                                                                         *)
(* warehouse/api.py keeps the job records (job_status) and runs            *)
(* process_materials_background as a background coroutine, which drives    *)
(* MaterialVectorProcessor.process_all_materials.  MaterialService has its *)
(* own copy of the same pipeline (with a stricter init_collection); it is  *)
(* modelled as a direct call without a job record or progress callback.    *)
(*                                                                         *)
(* The coroutines run on one event loop: a coroutine keeps the loop until  *)
(* it suspends (the catalog fetch, the inter-batch sleep) or ends.  `cur`  *)
(* is the coroutine that holds the loop.                                   *)
(*                                                                         *)
(* The specifications share the variables: Spec / FairSpec follow the job  *)
(* flow of api.py for one run, ConcurrentSpec for two jobs that run at     *)
(* once, RegistrySpec the calls on services/job_service.py's JobService,   *)
(* StoreSpec the upsert and search calls that reach the vector store       *)
(* through MaterialService and POST /search.                               *)
(***************************************************************************)
EXTENDS Integers, Sequences, FiniteSets, TLC

\* ---------------------------------------------------------------- bounds

\* Largest catalog the fetch returns.
MaxCatalog == 3

\* Identifiers of jobs / direct pipeline calls (uuid4 tokens in the code).  The
\* runs share nothing but the store, and a run's control flow reads only the
\* store's collection, whose three configurations Init covers: Spec follows
\* one run at a time, ConcurrentSpec two jobs that run at once.
JobIds == {"j1"}

ConcurrentJobs == {"j1", "j2"}

\* batch_size of a request: negative and zero sizes are accepted by the API.
BatchSizes == {-1, 0, 1, 2, 3}

\* max_workers of a request: 0 makes ThreadPoolExecutor raise ValueError.
WorkerCounts == {0, 2}

\* ------------------------------------------------------------- constants

\* Dimension of the embedding model (get_sentence_embedding_dimension()).
vector_size == 384

\* Dimensions a collection of the store may be configured with.
VectorSizes == {384, 768}

None == <<>>

Some(x) == <<x>>

\* Python truthiness of an optional timestamp: None and 0 are falsy.
Falsy(x) == x = None \/ x = Some(0)

Min(a, b) == IF a <= b THEN a ELSE b

RECURSIVE Gcd(_, _)
Gcd(a, b) == IF b = 0 THEN a ELSE Gcd(b, a % b)

\* A progress value is the rational <<num, den>> in lowest terms.
Rat(num, den) == LET g == Gcd(num, den) IN <<num \div g, den \div g>>

RatLeq(p, q) == p[1] * q[2] <= q[1] * p[2]

\* -------------------------------------------------------------- catalog

\* A catalog record: the fields the pipeline's control flow reads and the
\* payload fields searches filter on.
Record(k) == [id |-> k, materialNo |-> k, type |-> "RAW", stockStatus |-> "normal"]

\* The catalogs the source API may return: n records, ids 1..n.
Catalog(n) == [k \in 1 .. n |-> Record(k)]

Catalogs == {Catalog(n) : n \in 0 .. MaxCatalog}

\* ---------------------------------------------------------------- state

VARIABLES
    processor,              \* api.processor: "None" or "set"
    initialization_error,   \* api.initialization_error: None or Some(msg)
    job_status,             \* api.job_status: job id -> job record
    run,                    \* per id: the pipeline coroutine's locals
    cur,                    \* the coroutine holding the event loop, or "idle"
    qdrant,                 \* the vector store: collection and its points
    now,                    \* clock read by time.time()
    response,               \* the HTTP response the last step sent, if it sent one
    store_calls,            \* per id: store operations issued so far
    last_batch,             \* what the last step's chunk did, if it ran one
    jobs,                   \* JobService.jobs: job id -> job record
    issued,                 \* the ids create_job has handed out
    held,                   \* the value a caller of get_job / list_jobs holds
    last_op,                \* the last call on the JobService, with its result
    observed,               \* per record id, the record ingested last
    hits,                   \* the last search: request, store answer, response
    ensured,                \* per caller, what its init_collection call did
    doc,                    \* the last text built and encoded, with its input
    pool                    \* one process_batch_parallel call: futures and threads

\* The state of the job flow of api.py and of the pipeline.
pipeline_vars == <<processor, initialization_error, job_status, run, cur, qdrant,
                   response, store_calls, last_batch>>

\* The state of the JobService and of the calls on the store gateway.
service_vars == <<jobs, issued, held, last_op, observed, hits>>

\* The state of the single calls followed on their own: init_collection,
\* the text builder and encoder, the worker pool of one batch.
unit_vars == <<ensured, doc, pool>>

vars == <<processor, initialization_error, job_status, run, cur, qdrant, now,
          response, store_calls, last_batch,
          jobs, issued, held, last_op, observed, hits, ensured, doc, pool>>

NoRun == [pc |-> "none", impl |-> "none", has_job |-> FALSE,
          progress_callback |-> "none", callbacks |-> <<>>,
          batch_size |-> 0, max_workers |-> 0,
          materials |-> <<>>, i |-> 0, total_processed |-> 0, total_failed |-> 0,
          chunks |-> <<>>, item_failures |-> 0, chunk_errors |-> 0,
          upsert_errors |-> 0, points_written |-> 0, init_fault |-> None,
          sleeps |-> 0, result |-> None, raised |-> None]

NoCalls == [get_collections |-> 0, create_collection |-> 0, get_collection |-> 0,
            upsert |-> 0]

NoBatch == [run |-> "none", start |-> 0, items |-> {}, results |-> {},
            upsert_arg |-> None, built |-> {}, written |-> None,
            raised |-> FALSE]

\* VectorParams(size=..., distance=Distance.COSINE): the configuration
\* create_collection gives the collection.
VectorParams(size) == [size |-> size, distance |-> "Cosine"]

\* The state of the process after import, before the first request; `ids`
\* are the runs that will be followed.
InitFor(ids) ==
    /\ processor = "None"
    /\ initialization_error = None
    /\ job_status = << >>
    /\ run = [j \in ids |-> NoRun]
    /\ cur = "idle"
    /\ qdrant \in {[collection |-> c, points |-> << >>] :
                       c \in {None} \cup {Some(VectorParams(d)) : d \in VectorSizes}}
    /\ now = 1
    /\ response = None
    /\ store_calls = [j \in ids |-> NoCalls]
    /\ last_batch = NoBatch
    /\ jobs = << >>
    /\ issued = {}
    /\ held = None
    /\ last_op = None
    /\ observed = << >>
    /\ hits = None
    /\ ensured = << >>
    /\ doc = None
    /\ pool = None

Init == InitFor(JobIds)

\* ------------------------------------------------------------ exceptions

\* str(e) of the exceptions that reach a handler.
E_constructor == "Error loading model"

E_unreachable == "Cannot connect to host"

E_status == "Failed to fetch materials: 500"

E_store == "store connection refused"

E_mismatch == "Vector size mismatch - recreate collection or use different name"

E_range == "range() arg 3 must not be zero"

E_division == "integer division or modulo by zero"

\* The exception of a progress callback that `except Exception` does not catch.
E_callback == "CancelledError"

E_float_division == "float division by zero"

FetchErrors == {E_unreachable, E_status}

\* What a direct caller of process_all_materials passes as progress_callback.
CallerCallbacks == {"none", "caller"}

\* What the caller's callback does when it is awaited or resumed: it returns,
\* raises an exception of class Exception, raises one that derives from
\* BaseException only (asyncio.CancelledError, KeyboardInterrupt, SystemExit),
\* or awaits something that is not ready and gives up the event loop.
CallbackOutcomes == {"returns", "exception", "base_exception", "awaits"}

\* The store call of init_collection that fails in this run, if any.
StoreFaults == {"none", "get_collections", "create_collection", "get_collection"}

\* ------------------------------------------------------------ job records

\* api.process_materials: the record a new job starts with.
NewJob == [status |-> "queued", progress |-> <<0, 1>>, message |-> <<"Job queued">>,
           start_time |-> None, end_time |-> None, error |-> None,
           processed |-> 0, failed |-> 0, total |-> 0,
           result |-> None, traceback |-> None]

\* Variant: the first update stamps start_time but leaves the status queued.
JobRunning_deferred(rec, t) ==
    [rec EXCEPT !.start_time = Some(t), !.message = <<"Processing materials...">>]

\* api.process_materials_background: the first update of the task.
JobRunning(rec, t) ==
    [rec EXCEPT !.status = "running", !.start_time = Some(t),
                !.message = <<"Processing materials...">>]

\* The progress of the code is a float: progress = (k / n) * 100 in IEEE 754
\* double arithmetic, each operation rounded to 53 significant binary digits,
\* half to even.  A double is held as [limbs, places]: the limbs l1 .. l5, with
\* l2 .. l5 below LimbBase, stand for the integer
\* l1 * B^4 + l2 * B^3 + l3 * B^2 + l4 * B + l5, and the double is that integer
\* divided by 2^places.  The arithmetic is exact for n < 2^18.
LimbBase == 8192

\* The limbs with what the lower four hold beyond LimbBase carried upwards.
Carry(l) ==
    LET t4 == l[4] + l[5] \div LimbBase
        t3 == l[3] + t4 \div LimbBase
        t2 == l[2] + t3 \div LimbBase
    IN <<l[1] + t2 \div LimbBase, t2 % LimbBase, t3 % LimbBase, t4 % LimbBase,
         l[5] % LimbBase>>

\* The integer times a small factor m.
LimbsTimes(l, m) == Carry([i \in 1 .. 5 |-> l[i] * m])

\* The number of binary digits of h.
RECURSIVE BitLength(_)
BitLength(h) == IF h = 0 THEN 0 ELSE 1 + BitLength(h \div 2)

\* The smallest s with k * 2^s >= n.
RECURSIVE Scale(_, _)
Scale(k, n) == IF k >= n THEN 0 ELSE 1 + Scale(2 * k, n)

\* k / n for 0 < k < n, cut off after 53 binary digits: the leading digit of
\* k * 2^s / n is 1 and four limbs of 13 digits follow; `rest` is what the
\* division leaves.
LongDivision(k, n, s) ==
    LET r0 == k * (2 ^ s) - n
        r1 == (r0 * LimbBase) % n
        r2 == (r1 * LimbBase) % n
        r3 == (r2 * LimbBase) % n
    IN [limbs |-> <<1, (r0 * LimbBase) \div n, (r1 * LimbBase) \div n,
                    (r2 * LimbBase) \div n, (r3 * LimbBase) \div n>>,
        rest |-> (r3 * LimbBase) % n,
        places |-> s + 52]

\* The cut-off quotient rounded to nearest, half to even.
NearestQuotient(q, n) ==
    LET up == 2 * q.rest > n \/ (2 * q.rest = n /\ q.limbs[5] % 2 = 1)
    IN [limbs |-> IF up THEN Carry([q.limbs EXCEPT ![5] = @ + 1]) ELSE q.limbs,
        places |-> q.places]

\* k / n as a double.  (The set constructors here and below make the result of
\* each step a value before the next step reads it.)
FloatDiv(k, n) ==
    CHOOSE x \in {NearestQuotient(q, n) :
                    q \in {LongDivision(k, n, s) : s \in {Scale(k, n)}}} : TRUE

\* The integer rounded to 53 significant binary digits, half to even: l1 holds
\* the digits above the 52 of l2 .. l5, so all but one of its digits are cut
\* off at the low end.
RoundTo53(l) ==
    LET unit == 2 ^ (BitLength(l[1]) - 1)
        low == l[5] % unit
        up == 2 * low > unit \/ (2 * low = unit /\ (l[5] \div unit) % 2 = 1)
    IN Carry([l EXCEPT ![5] = @ - low + (IF up THEN unit ELSE 0)])

\* x * m as a double, for a double x and a small integer m.
FloatTimes(x, m) ==
    CHOOSE y \in {[limbs |-> RoundTo53(product), places |-> x.places] :
                    product \in {LimbsTimes(x.limbs, m)}} : TRUE

\* The integer nearest to limbs / 2^places, half to even (places > 52).
NearestInteger(l, places) ==
    LET s == places - 52
        whole == l[1] \div (2 ^ s)
        part == l[1] % (2 ^ s)
        half == 2 ^ (s - 1)
        more == \E i \in 2 .. 5 : l[i] # 0
        up == part > half \/ (part = half /\ (more \/ whole % 2 = 1))
    IN IF up THEN whole + 1 ELSE whole

\* f"{x:.1f}": the decimal with one digit after the point that is nearest to
\* the double, in tenths.
FormatTenths(x) ==
    CHOOSE t \in {NearestInteger(scaled, x.places) :
                    scaled \in {LimbsTimes(x.limbs, 10)}} : TRUE

\* f"{progress:.1f}" of progress = min(((i + batch_size) / total) * 100, 100):
\* the tenths of a percent the message shows.  `progress` is the exact value
\* num / den of 100 * (i + batch_size) / total; the float is computed from the
\* quotient (i + batch_size) / total = num / (100 * den), in lowest terms.
Tenths(progress) ==
    IF progress[1] >= 100 * progress[2] THEN 1000
    ELSE IF progress[1] = 0 THEN 0
    ELSE CHOOSE t \in
           {FormatTenths(p) : p \in
              {FloatTimes(q, 100) : q \in
                 {FloatDiv(progress[1] \div g, (100 \div g) * progress[2]) :
                     g \in {Gcd(progress[1], 100)}}}} : TRUE

\* Variant: the callback writes progress and message, the counters are left
\* for a later write.
JobProgress_counters_later(rec, progress, processed, total) ==
    [rec EXCEPT !.progress = progress,
                !.message = <<"Processing... ", Tenths(progress), processed, total>>]

\* api.progress_callback: min(((i + batch_size) / total) * 100, 100) arrives as
\* `progress`; the message repeats the three numbers.
JobProgress(rec, progress, processed, total) ==
    [rec EXCEPT !.progress = progress, !.processed = processed, !.total = total,
                !.message = <<"Processing... ", Tenths(progress), processed, total>>]

\* Variant: a Summary that reports failed records makes the job failed.
JobCompleted_failed_on_failures(rec, result, t) ==
    [rec EXCEPT !.status = IF result.failed = 0 THEN "completed" ELSE "failed",
                !.progress = <<100, 1>>, !.end_time = Some(t),
                !.message = <<"Processing completed successfully">>,
                !.result = Some(result),
                !.processed = result.processed, !.failed = result.failed,
                !.total = result.total_materials]

\* Variant: the final update leaves end_time out.
JobCompleted_no_end_time(rec, result, t) ==
    [rec EXCEPT !.status = "completed", !.progress = <<100, 1>>,
                !.message = <<"Processing completed successfully">>,
                !.result = Some(result),
                !.processed = result.processed, !.failed = result.failed,
                !.total = result.total_materials]

\* Variant: the final status follows the Summary's success flag.
JobCompleted_by_success(rec, result, t) ==
    [rec EXCEPT !.status = IF result.success THEN "completed" ELSE "failed",
                !.progress = <<100, 1>>, !.end_time = Some(t),
                !.message = <<"Processing completed successfully">>,
                !.result = Some(result),
                !.processed = result.processed, !.failed = result.failed,
                !.total = result.total_materials]

\* api.process_materials_background: the update after the pipeline returned.
JobCompleted(rec, result, t) ==
    [rec EXCEPT !.status = "completed", !.progress = <<100, 1>>, !.end_time = Some(t),
                !.message = <<"Processing completed successfully">>,
                !.result = Some(result),
                !.processed = result.processed, !.failed = result.failed,
                !.total = result.total_materials]

\* Variant: the except branch records the error but leaves the status as it is.
JobFailed_status_kept(rec, e, t) ==
    [rec EXCEPT !.error = Some(<<"Processing failed: ", e>>),
                !.message = <<"Processing failed: ", e>>,
                !.traceback = Some(e)]

\* Variant: the except branch records the message but not the error.
JobFailed_no_error(rec, e, t) ==
    [rec EXCEPT !.status = "failed", !.end_time = Some(t),
                !.message = <<"Processing failed: ", e>>]

\* api.process_materials_background: the update of the except branch.
JobFailed(rec, e, t) ==
    [rec EXCEPT !.status = "failed", !.end_time = Some(t),
                !.error = Some(<<"Processing failed: ", e>>),
                !.message = <<"Processing failed: ", e>>,
                !.traceback = Some(e)]

\* ------------------------------------------------------- vector store use

Bump(calls, ops) ==
    [op \in DOMAIN calls |-> calls[op] + Cardinality({k \in DOMAIN ops : ops[k] = op})]

\* Variant: a failing store call is logged and not re-raised.
processor_init_collection_swallow(q, fault) ==
    IF fault = "get_collections"
    THEN [raised |-> None, failed_call |-> Some("get_collections"),
          qdrant |-> q, calls |-> <<"get_collections">>]
    ELSE IF q.collection = None
    THEN IF fault = "create_collection"
         THEN [raised |-> None, failed_call |-> Some("create_collection"),
               qdrant |-> q, calls |-> <<"get_collections", "create_collection">>]
         ELSE [raised |-> None, failed_call |-> None,
               qdrant |-> [q EXCEPT !.collection = Some(VectorParams(vector_size))],
               calls |-> <<"get_collections", "create_collection">>]
    ELSE [raised |-> None, failed_call |-> None, qdrant |-> q,
          calls |-> <<"get_collections">>]

\* MaterialVectorProcessor.init_collection: create the collection when it is
\* absent; an existing collection is accepted as it is.
processor_init_collection(q, fault) ==
    IF fault = "get_collections"
    THEN [raised |-> Some(E_store), failed_call |-> Some("get_collections"),
          qdrant |-> q, calls |-> <<"get_collections">>]
    ELSE IF q.collection = None
    THEN IF fault = "create_collection"
         THEN [raised |-> Some(E_store), failed_call |-> Some("create_collection"),
               qdrant |-> q, calls |-> <<"get_collections", "create_collection">>]
         ELSE [raised |-> None, failed_call |-> None, qdrant |-> [q EXCEPT !.collection = Some(VectorParams(vector_size))],
               calls |-> <<"get_collections", "create_collection">>]
    ELSE [raised |-> None, failed_call |-> None, qdrant |-> q, calls |-> <<"get_collections">>]

\* MaterialService.init_collection: as above, and an existing collection's
\* configured size is read back and compared with the model's.
service_init_collection(q, fault) ==
    IF fault = "get_collections"
    THEN [raised |-> Some(E_store), failed_call |-> Some("get_collections"),
          qdrant |-> q, calls |-> <<"get_collections">>]
    ELSE IF q.collection = None
    THEN IF fault = "create_collection"
         THEN [raised |-> Some(E_store), failed_call |-> Some("create_collection"),
               qdrant |-> q, calls |-> <<"get_collections", "create_collection">>]
         ELSE [raised |-> None, failed_call |-> None, qdrant |-> [q EXCEPT !.collection = Some(VectorParams(vector_size))],
               calls |-> <<"get_collections", "create_collection">>]
    ELSE IF fault = "get_collection"
    THEN [raised |-> Some(E_store), failed_call |-> Some("get_collection"),
          qdrant |-> q, calls |-> <<"get_collections", "get_collection">>]
    ELSE IF q.collection[1].size # vector_size
    THEN [raised |-> Some(E_mismatch), failed_call |-> None, qdrant |-> q,
          calls |-> <<"get_collections", "get_collection">>]
    ELSE [raised |-> None, failed_call |-> None, qdrant |-> q,
          calls |-> <<"get_collections", "get_collection">>]

\* str.strip() and str.lower() on the field values that occur.
Strip(val) == IF val = " critical " THEN "critical" ELSE val

Lower(val) ==
    CASE val = "Critical" -> "critical"
      [] val = "RAW" -> "raw"
      [] OTHER -> val

\* int(item.get('id', 0)): a record without an id gets point id 0.
item_id(item) == IF "id" \in DOMAIN item THEN item.id ELSE 0

\* process_item: the vector data of one record (None when it raised).
process_item(item) ==
    [id |-> item_id(item),
     payload |-> [materialCode |-> item.materialNo, type |-> item.type,
                  stockStatus |-> item.stockStatus]]

\* MaterialService.process_item: as above, the type stored in lower case.
service_process_item(item) ==
    [id |-> item_id(item),
     payload |-> [materialCode |-> item.materialNo, type |-> Lower(item.type),
                  stockStatus |-> item.stockStatus]]

\* self.process_item of the pipeline's implementation.
process_item_of(impl, item) ==
    IF impl = "service" THEN service_process_item(item) ELSE process_item(item)

\* The indices lo..hi in ascending order.
IndexSeq(lo, hi) == [m \in 1 .. (IF hi >= lo THEN hi - lo + 1 ELSE 0) |-> lo + m - 1]

\* Variant: future.result() is not guarded, so one failing item raises out of
\* the whole batch.
process_batch_parallel_unguarded(impl, materials, lo, hi, max_workers, ok) ==
    IF max_workers <= 0 \/ \E k \in lo .. hi : k \notin ok
    THEN [raised |-> TRUE, vector_data |-> <<>>]
    ELSE [raised |-> FALSE,
          vector_data |-> [m \in 1 .. (hi - lo + 1) |->
                             process_item_of(impl, materials[lo + m - 1])]]

\* process_batch_parallel: ThreadPoolExecutor refuses max_workers <= 0; else the
\* results are, in submission order, the items whose process_item returned a
\* value in time (`ok`: the indices of those items).
process_batch_parallel(impl, materials, lo, hi, max_workers, ok) ==
    IF max_workers <= 0
    THEN [raised |-> TRUE, vector_data |-> <<>>]
    ELSE LET kept == SelectSeq(IndexSeq(lo, hi), LAMBDA k : k \in ok)
         IN [raised |-> FALSE,
             vector_data |-> [m \in 1 .. Len(kept) |->
                                process_item_of(impl, materials[kept[m]])]]

\* The store's upsert (qdrant_client.upsert, whose code is outside this
\* repository): insert or replace by id, later points of a call last.
RECURSIVE StoreUpsert(_, _)
StoreUpsert(points, new) ==
    IF new = <<>> THEN points
    ELSE LET p == Head(new)
             ids == DOMAIN points \cup {p.id}
         IN StoreUpsert([id \in ids |-> IF id = p.id THEN p.payload ELSE points[id]],
                        Tail(new))

\* Variant: one point that cannot be built fails the whole call.
upsert_vectors_all_or_nothing(q, vector_data, built, upsert_ok) ==
    LET points == SelectSeq(vector_data, LAMBDA d : d.id \in built)
    IN IF vector_data = <<>>
       THEN [raised |-> FALSE, qdrant |-> q, calls |-> <<>>, points |-> None]
       ELSE IF Len(points) < Len(vector_data)
       THEN [raised |-> TRUE, qdrant |-> q, calls |-> <<>>, points |-> None]
       ELSE IF upsert_ok
       THEN [raised |-> FALSE, calls |-> <<"upsert">>, points |-> Some(points),
             qdrant |-> [q EXCEPT !.points = StoreUpsert(@, points)]]
       ELSE [raised |-> TRUE, qdrant |-> q, calls |-> <<"upsert">>,
             points |-> Some(points)]

\* Variant: the points are collected with points.insert(0, ...), so the call
\* hands them to the store in reverse order.
upsert_vectors_reversed(q, vector_data, built, upsert_ok) ==
    LET kept == SelectSeq(vector_data, LAMBDA d : d.id \in built)
        points == [m \in 1 .. Len(kept) |-> kept[Len(kept) + 1 - m]]
    IN IF vector_data = <<>> \/ points = <<>>
       THEN [raised |-> FALSE, qdrant |-> q, calls |-> <<>>, points |-> None]
       ELSE IF upsert_ok
       THEN [raised |-> FALSE, calls |-> <<"upsert">>, points |-> Some(points),
             qdrant |-> [q EXCEPT !.points = StoreUpsert(@, points)]]
       ELSE [raised |-> TRUE, qdrant |-> q, calls |-> <<"upsert">>,
             points |-> Some(points)]

\* upsert_vectors: nothing on empty input; the points that can be built
\* (`built`: their ids) go to the store in one call, in the order of the
\* vector data, and the call may raise.
upsert_vectors(q, vector_data, built, upsert_ok) ==
    LET points == SelectSeq(vector_data, LAMBDA d : d.id \in built)
    IN IF vector_data = <<>> \/ points = <<>>
       THEN [raised |-> FALSE, qdrant |-> q, calls |-> <<>>, points |-> None]
       ELSE IF upsert_ok
       THEN [raised |-> FALSE, calls |-> <<"upsert">>, points |-> Some(points),
             qdrant |-> [q EXCEPT !.points = StoreUpsert(@, points)]]
       ELSE [raised |-> TRUE, qdrant |-> q, calls |-> <<"upsert">>,
             points |-> Some(points)]

\* ---------------------------------------------------------- api handlers

\* The exits of initialize_processor at first use: the processor is
\* constructed; check_dependencies reports a missing package; the constructor
\* raises; check_dependencies itself raises (the outer except).
InitOutcomes == {"ok", "missing_dependencies", "constructor_failed",
                 "dependency_check_raised"}

\* Variant: a failed initialization is attempted again at the next request.
ensure_processor_initialized_retry(outcome) ==
    IF processor = "None"
    THEN IF outcome = "ok" THEN <<"set", None>> ELSE <<"None", Some(outcome)>>
    ELSE <<processor, initialization_error>>

\* api.ensure_processor_initialized / initialize_processor: attempted only
\* while neither global is set; <<processor, initialization_error>> after it.
ensure_processor_initialized(outcome) ==
    IF processor = "None" /\ initialization_error = None
    THEN IF outcome = "ok" THEN <<"set", None>> ELSE <<"None", Some(outcome)>>
    ELSE <<processor, initialization_error>>

\* GET /: the processor is initialized at first use; the answer tells whether
\* it is there and repeats the initialization error.
warehouse_root(outcome) ==
    LET g == ensure_processor_initialized(outcome) IN
    /\ cur = "idle"
    /\ processor' = g[1]
    /\ initialization_error' = g[2]
    /\ response' = Some([route |-> "root", code |-> 200, job_id |-> None,
                         body |-> Some([status |-> IF g[1] = "set" THEN "running"
                                                   ELSE "initialization_failed",
                                        initialization_error |-> g[2]])])
    /\ last_batch' = NoBatch
    /\ UNCHANGED <<job_status, run, cur, qdrant, now, store_calls>>
    /\ UNCHANGED <<service_vars, unit_vars>>

\* GET /health: the processor is initialized at first use; unhealthy with the
\* initialization error, or when the test encode raises (`encode_ok` false).
\* Every answer carries check_dependencies(): the call of the two unhealthy
\* answers is outside any try block, the call of the healthy answer is inside
\* the try and the except branch calls it again (`deps_ok`: the first call
\* returns; `deps_again_ok`: the call of the except branch returns).  A call
\* that raises outside the try leaves the handler: the answer is a 500.
health_check(outcome, encode_ok, deps_ok, deps_again_ok) ==
    LET g == ensure_processor_initialized(outcome)
        failed == [route |-> "health", code |-> 500, job_id |-> None, body |-> None]
        answer(body) == [route |-> "health", code |-> 200, job_id |-> None,
                         body |-> Some(body)]
    IN
    /\ cur = "idle"
    /\ processor' = g[1]
    /\ initialization_error' = g[2]
    /\ response' =
         Some(IF g[2] # None
              THEN IF deps_ok THEN answer([status |-> "unhealthy", error |-> g[2]])
                   ELSE failed
              ELSE IF g[1] = "None"
              THEN IF deps_ok
                   THEN answer([status |-> "unhealthy",
                                error |-> Some("Processor not initialized")])
                   ELSE failed
              ELSE IF encode_ok /\ deps_ok
              THEN answer([status |-> "healthy", error |-> None])
              ELSE IF deps_again_ok
              THEN answer([status |-> "unhealthy",
                           error |-> Some(IF encode_ok THEN "dependency check failed"
                                          ELSE "encode failed")])
              ELSE failed)
    /\ last_batch' = NoBatch
    /\ UNCHANGED <<job_status, run, cur, qdrant, now, store_calls>>
    /\ UNCHANGED <<service_vars, unit_vars>>

\* POST /process-materials: reject when initialization failed, else create
\* the queued job record and schedule the background task.
process_materials(j, batch_size, max_workers, outcome) ==
    LET g == ensure_processor_initialized(outcome) IN
    /\ cur = "idle"
    /\ j \notin DOMAIN job_status
    /\ run[j].pc = "none"
    /\ processor' = g[1]
    /\ initialization_error' = g[2]
    /\ IF g[2] # None \/ g[1] = "None"
       THEN /\ response' = Some([route |-> "process-materials", code |-> 500, job_id |-> j,
                                  body |-> None])
            /\ UNCHANGED <<job_status, run>>
       ELSE /\ job_status' = (j :> NewJob) @@ job_status
            /\ run' = [run EXCEPT ![j] = [NoRun EXCEPT !.pc = "queued",
                                                       !.impl = "processor",
                                                       !.has_job = TRUE,
                                                       !.progress_callback = "job",
                                                       !.batch_size = batch_size,
                                                       !.max_workers = max_workers]]
            /\ response' = Some([route |-> "process-materials", code |-> 200,
                                  job_id |-> j, body |-> None])
    /\ last_batch' = NoBatch
    /\ UNCHANGED <<cur, qdrant, now, store_calls>>
    /\ UNCHANGED <<service_vars, unit_vars>>

\* A direct call of MaterialService.process_all_materials(batch_size,
\* max_workers, progress_callback), with no callback ("none") or with one of
\* the caller's ("caller"): it runs up to the catalog fetch.
service_process_all_materials(j, batch_size, max_workers, progress_callback) ==
    /\ cur = "idle"
    /\ j \notin DOMAIN job_status
    /\ run[j].pc = "none"
    /\ run' = [run EXCEPT ![j] = [NoRun EXCEPT !.pc = "fetching",
                                               !.impl = "service",
                                               !.progress_callback = progress_callback,
                                               !.batch_size = batch_size,
                                               !.max_workers = max_workers]]
    /\ response' = None
    /\ last_batch' = NoBatch
    /\ UNCHANGED <<processor, initialization_error, job_status,
                   cur, qdrant, now, store_calls>>
    /\ UNCHANGED <<service_vars, unit_vars>>

\* GET /job-status/{job_id}: 404 for an unknown id, else a copy of the record
\* with the duration computed from start_time and end_time or the clock; the
\* two stamps are tested for truthiness (`if status.get("start_time"):`).
get_job_status(j) ==
    /\ cur = "idle"
    /\ response' =
         IF j \notin DOMAIN job_status
         THEN Some([route |-> "job-status", code |-> 404, job_id |-> j, body |-> None])
         ELSE LET status == job_status[j]
                  duration ==
                      IF Falsy(status.start_time) THEN None
                      ELSE IF ~Falsy(status.end_time)
                      THEN Some(status.end_time[1] - status.start_time[1])
                      ELSE Some(now - status.start_time[1])
              IN Some([route |-> "job-status", code |-> 200, job_id |-> j,
                       body |-> Some([job |-> status, duration |-> duration])])
    /\ last_batch' = NoBatch
    /\ UNCHANGED <<processor, initialization_error, job_status, run,
                   cur, qdrant, now, store_calls>>
    /\ UNCHANGED <<service_vars, unit_vars>>

\* --------------------------------------------------- the pipeline's steps

\* An exception leaves process_all_materials: the background task's except
\* branch records it in the job; a direct caller receives it.
RaiseFrom(j, r, e) ==
    /\ run' = [run EXCEPT ![j] = [r EXCEPT !.pc = "done", !.raised = Some(e)]]
    /\ cur' = "idle"
    /\ IF r.has_job
       THEN /\ job_status' = [job_status EXCEPT ![j] = JobFailed(@, e, now)]
            /\ now' = now + 1
       ELSE UNCHANGED <<job_status, now>>

Raise(j, e) == RaiseFrom(j, run[j], e)

\* process_materials_background up to the await of the fetch: the job becomes
\* running, the processor is constructed, process_all_materials starts.
background_start(j) ==
    /\ cur = "idle"
    /\ run[j].pc = "queued"
    /\ \E constructed \in BOOLEAN :
         IF constructed
         THEN /\ job_status' = [job_status EXCEPT ![j] = JobRunning(@, now)]
              /\ now' = now + 1
              /\ run' = [run EXCEPT ![j].pc = "fetching"]
         ELSE /\ job_status' = [job_status EXCEPT ![j] =
                                  JobFailed(JobRunning(@, now), E_constructor, now + 1)]
              /\ now' = now + 2
              /\ run' = [run EXCEPT ![j].pc = "done", ![j].raised = Some(E_constructor)]
    /\ response' = None
    /\ last_batch' = NoBatch
    /\ UNCHANGED <<processor, initialization_error, cur, qdrant, store_calls>>
    /\ UNCHANGED <<service_vars, unit_vars>>

\* fetch_materials returns the catalog (status 200) and the coroutine resumes.
fetch_materials_ok(j) ==
    /\ cur = "idle"
    /\ run[j].pc = "fetching"
    /\ \E materials \in Catalogs :
         run' = [run EXCEPT ![j].pc = "init", ![j].materials = materials]
    /\ cur' = j
    /\ response' = None
    /\ last_batch' = NoBatch
    /\ UNCHANGED <<processor, initialization_error, job_status,
                   qdrant, now, store_calls>>
    /\ UNCHANGED <<service_vars, unit_vars>>

\* fetch_materials raises: the source is unreachable or answers another status.
fetch_materials_error(j) ==
    /\ cur = "idle"
    /\ run[j].pc = "fetching"
    /\ \E e \in FetchErrors : Raise(j, e)
    /\ response' = None
    /\ last_batch' = NoBatch
    /\ UNCHANGED <<processor, initialization_error, qdrant, store_calls>>
    /\ UNCHANGED <<service_vars, unit_vars>>

\* Variant: create_collection is called without looking whether the
\* collection exists; the store refuses to create it a second time.
init_collection_create_unchecked(impl, q, fault) ==
    IF fault = "create_collection" \/ q.collection # None
    THEN [raised |-> Some(E_store), failed_call |-> Some("create_collection"),
          qdrant |-> q, calls |-> <<"create_collection">>]
    ELSE [raised |-> None, failed_call |-> None,
          qdrant |-> [q EXCEPT !.collection = Some(VectorParams(vector_size))],
          calls |-> <<"create_collection">>]

\* init_collection of the run's implementation.
init_collection(impl, q, fault) ==
    IF impl = "service" THEN service_init_collection(q, fault)
    ELSE processor_init_collection(q, fault)

\* process_all_materials: self.init_collection(), then the loop is entered.
init_collection_step(j) ==
    /\ cur = j
    /\ run[j].pc = "init"
    /\ \E fault \in StoreFaults :
         LET r == init_collection(run[j].impl, qdrant, fault) IN
         /\ qdrant' = r.qdrant
         /\ store_calls' = [store_calls EXCEPT ![j] = Bump(@, r.calls)]
         /\ IF r.raised # None
            THEN RaiseFrom(j, [run[j] EXCEPT !.init_fault = r.failed_call], r.raised[1])
            ELSE /\ run' = [run EXCEPT ![j].pc = "loop", ![j].init_fault = r.failed_call]
                 /\ UNCHANGED <<job_status, now, cur>>
    /\ response' = None
    /\ last_batch' = NoBatch
    /\ UNCHANGED <<processor, initialization_error>>
    /\ UNCHANGED <<service_vars, unit_vars>>

\* Variant: the share of the records still ahead instead of those attempted.
Progress_remaining(i, batch_size, total) ==
    IF i >= total THEN <<0, 1>> ELSE Rat((total - i) * 100, total)

\* min(((i + batch_size) / total) * 100, 100), as an exact rational.
Progress(i, batch_size, total) ==
    IF i + batch_size >= total THEN <<100, 1>> ELSE Rat((i + batch_size) * 100, total)

\* Variant: success only when no record failed.
Summary_no_failures(total_materials, total_processed, total_failed) ==
    [total_materials |-> total_materials, processed |-> total_processed,
     failed |-> total_failed, success |-> total_failed = 0]

\* The Summary process_all_materials returns (duration left out).
Summary(total_materials, total_processed, total_failed) ==
    [total_materials |-> total_materials, processed |-> total_processed,
     failed |-> total_failed, success |-> total_failed < total_materials]

\* Variant: the slice stops one record early (materials[i:i+batch_size-1]).
batch_indices_short(r) ==
    (r.i + 1) .. Min(r.i + r.batch_size - 1, Len(r.materials))

\* batch = materials[i:i + batch_size]: the (1-based) positions of its records.
batch_indices(r) ==
    (r.i + 1) .. Min(r.i + r.batch_size, Len(r.materials))

\* Variant: the failures of a batch are counted against batch_size instead of
\* len(batch).
process_chunk_by_batch_size(r, q, ok, built, upsert_ok) ==
    LET items == batch_indices(r)
        size == Cardinality(items)
        pb == process_batch_parallel(r.impl, r.materials, r.i + 1, r.i + size, r.max_workers, ok)
        up == upsert_vectors(q, pb.vector_data, built, upsert_ok)
    IN IF pb.raised \/ up.raised
       THEN [raised |-> TRUE, size |-> size,
             vector_data |-> IF pb.raised THEN <<>> ELSE pb.vector_data,
             total_processed |-> r.total_processed,
             total_failed |-> r.total_failed + size,
             qdrant |-> IF pb.raised THEN q ELSE up.qdrant,
             calls |-> IF pb.raised THEN <<>> ELSE up.calls,
             points |-> IF pb.raised THEN None ELSE up.points]
       ELSE [raised |-> FALSE, size |-> size, vector_data |-> pb.vector_data,
             total_processed |-> r.total_processed + Len(pb.vector_data),
             total_failed |-> r.total_failed + (r.batch_size - Len(pb.vector_data)),
             qdrant |-> up.qdrant, calls |-> up.calls, points |-> up.points]

\* One iteration's try block: the batch is encoded and upserted and the
\* counters grow; any exception counts the whole batch as failed.
process_chunk(r, q, ok, built, upsert_ok) ==
    LET items == batch_indices(r)
        size == Cardinality(items)
        pb == process_batch_parallel(r.impl, r.materials, r.i + 1, r.i + size, r.max_workers, ok)
        up == upsert_vectors(q, pb.vector_data, built, upsert_ok)
    IN IF pb.raised
       THEN [raised |-> TRUE, size |-> size, vector_data |-> <<>>,
             total_processed |-> r.total_processed,
             total_failed |-> r.total_failed + size,
             qdrant |-> q, calls |-> <<>>, points |-> None]
       ELSE IF up.raised
       THEN [raised |-> TRUE, size |-> size, vector_data |-> pb.vector_data,
             total_processed |-> r.total_processed,
             total_failed |-> r.total_failed + size,
             qdrant |-> up.qdrant, calls |-> up.calls, points |-> up.points]
       ELSE [raised |-> FALSE, size |-> size, vector_data |-> pb.vector_data,
             total_processed |-> r.total_processed + Len(pb.vector_data),
             total_failed |-> r.total_failed + (size - Len(pb.vector_data)),
             qdrant |-> up.qdrant, calls |-> up.calls, points |-> up.points]

\* The loop body up to the progress update; on a chunk-level exception
\* `continue` takes the loop straight to the next batch.
process_batch(j) ==
    /\ cur = j
    /\ run[j].pc = "loop"
    /\ run[j].batch_size > 0
    /\ run[j].i < Len(run[j].materials)
    /\ LET r == run[j]
           items == batch_indices(r)
       IN \E ok \in SUBSET items, upsert_ok \in BOOLEAN :
          \E built \in SUBSET {r.materials[k].id : k \in ok} :
            LET c == process_chunk(r, qdrant, ok, built, upsert_ok) IN
            /\ qdrant' = c.qdrant
            /\ store_calls' = [store_calls EXCEPT ![j] = Bump(@, c.calls)]
            /\ last_batch' = [run |-> j, start |-> r.i, items |-> items,
                              results |-> IF r.max_workers > 0 THEN ok ELSE {},
                              upsert_arg |-> IF c.vector_data = <<>> THEN None
                                             ELSE Some(c.vector_data),
                              built |-> {c.vector_data[k].id :
                                            k \in DOMAIN c.vector_data} \cap built,
                              written |-> c.points, raised |-> c.raised]
            /\ run' = [run EXCEPT ![j] =
                         [r EXCEPT !.total_processed = c.total_processed,
                                   !.total_failed = c.total_failed,
                                   !.chunks = Append(@, <<r.i, c.size>>),
                                   !.item_failures =
                                       IF r.max_workers > 0
                                       THEN @ + Cardinality(items \ ok) ELSE @,
                                   !.chunk_errors = IF c.raised THEN @ + 1 ELSE @,
                                   !.upsert_errors =
                                       IF upsert_ok \/ c.calls = <<>> THEN @ ELSE @ + 1,
                                   !.points_written =
                                       IF upsert_ok /\ c.calls # <<>>
                                       THEN @ + Len(c.points[1]) ELSE @,
                                   !.i = IF c.raised THEN r.i + r.batch_size ELSE r.i,
                                   !.pc = IF c.raised THEN "loop" ELSE "progress"]]
    /\ response' = None
    /\ UNCHANGED <<processor, initialization_error, job_status, cur, now>>
    /\ UNCHANGED <<service_vars, unit_vars>>

\* `try: await progress_callback(...) except Exception: logger.error(...)`:
\* an exception of class Exception is logged and goes no further; one that
\* derives from BaseException only is not caught and leaves the call.
invoke_progress_callback(outcome) ==
    [raised |-> outcome = "base_exception", logged |-> outcome = "exception",
     suspended |-> outcome = "awaits"]

\* The progress update after a batch whose try block did not raise: the
\* callback, if one was given, is awaited with (progress, total_processed,
\* total).  The callback of the background task writes the three into the job
\* record and returns without awaiting.  A caller's callback may await: the
\* coroutine then gives up the event loop inside the callback (pc stays
\* "progress", cur becomes "idle") and the step is taken again when the
\* callback is resumed.  A caller's callback may raise, at once or when it is
\* resumed: an Exception is logged and the loop goes on, any other exception
\* leaves process_all_materials.
progress_step(j) ==
    /\ run[j].pc = "progress"
    /\ cur \in (IF run[j].progress_callback = "caller" THEN {j, "idle"} ELSE {j})
    /\ LET r == run[j]
           resumed == cur = "idle"
           total == Len(r.materials)
           progress == Progress(r.i, r.batch_size, total)
       IN \E outcome \in (IF r.progress_callback # "caller" THEN {"returns"}
                           ELSE IF resumed THEN CallbackOutcomes \ {"awaits"}
                           ELSE CallbackOutcomes) :
            LET call == invoke_progress_callback(outcome)
                report == [progress |-> progress, processed |-> r.total_processed,
                           total |-> total, raised |-> call.raised \/ call.logged]
                after == [r EXCEPT !.callbacks =
                                      IF r.progress_callback = "none" THEN @
                                      ELSE IF resumed THEN [@ EXCEPT ![Len(@)] = report]
                                      ELSE Append(@, report)]
            IN IF call.raised
               THEN RaiseFrom(j, after, E_callback)
               ELSE IF call.suspended
               THEN /\ run' = [run EXCEPT ![j] = after]
                    /\ cur' = "idle"
                    /\ UNCHANGED <<job_status, now>>
               ELSE /\ run' = [run EXCEPT ![j] = [after EXCEPT !.pc = "delay"]]
                    /\ job_status' =
                         IF r.has_job
                         THEN [job_status EXCEPT ![j] =
                                 JobProgress(@, progress, r.total_processed, total)]
                         ELSE job_status
                    /\ cur' = j
                    /\ UNCHANGED now
    /\ response' = None
    /\ last_batch' = NoBatch
    /\ UNCHANGED <<processor, initialization_error, qdrant, store_calls>>
    /\ UNCHANGED <<service_vars, unit_vars>>

\* `if i + batch_size < total: await asyncio.sleep(delay)`: the coroutine
\* gives up the loop only when another batch remains.
delay_step(j) ==
    /\ cur = j
    /\ run[j].pc = "delay"
    /\ IF run[j].i + run[j].batch_size < Len(run[j].materials)
       THEN /\ run' = [run EXCEPT ![j].pc = "sleeping", ![j].sleeps = @ + 1]
            /\ cur' = "idle"
       ELSE /\ run' = [run EXCEPT ![j].pc = "loop", ![j].i = @ + run[j].batch_size]
            /\ UNCHANGED cur
    /\ response' = None
    /\ last_batch' = NoBatch
    /\ UNCHANGED <<processor, initialization_error, job_status,
                   qdrant, now, store_calls>>
    /\ UNCHANGED <<service_vars, unit_vars>>

\* The sleep is over and the loop moves to the next batch.
wake(j) ==
    /\ cur = "idle"
    /\ run[j].pc = "sleeping"
    /\ cur' = j
    /\ run' = [run EXCEPT ![j].pc = "loop", ![j].i = @ + run[j].batch_size]
    /\ response' = None
    /\ last_batch' = NoBatch
    /\ UNCHANGED <<processor, initialization_error, job_status,
                   qdrant, now, store_calls>>
    /\ UNCHANGED <<service_vars, unit_vars>>

\* range(0, total, 0) (the processor) and the division by batch_size (the
\* service) raise for batch_size = 0; the exception leaves the pipeline.
range_error(j) ==
    /\ cur = j
    /\ run[j].pc = "loop"
    /\ run[j].batch_size = 0
    /\ Raise(j, IF run[j].impl = "service" THEN E_division ELSE E_range)
    /\ response' = None
    /\ last_batch' = NoBatch
    /\ UNCHANGED <<processor, initialization_error, qdrant, store_calls>>
    /\ UNCHANGED <<service_vars, unit_vars>>

\* What the two time.time() reads of a run, at its start and after its loop,
\* can give: a later or the same reading (`elapsed` false).  Only
\* MaterialService divides by the duration (total_processed / duration, for
\* the average speed).
ElapsedReadings(impl) == IF impl = "service" THEN BOOLEAN ELSE {TRUE}

\* The loop is exhausted: the final statistics are computed, the Summary is
\* returned and the background task writes the completed update.  In
\* MaterialService a duration of zero raises ZeroDivisionError instead, which
\* leaves the pipeline.
finish(j) ==
    /\ cur = j
    /\ run[j].pc = "loop"
    /\ run[j].batch_size # 0
    /\ run[j].batch_size < 0 \/ run[j].i >= Len(run[j].materials)
    /\ LET r == run[j]
           result == Summary(Len(r.materials), r.total_processed, r.total_failed)
       IN \E elapsed \in ElapsedReadings(r.impl) :
            IF ~elapsed
            THEN Raise(j, E_float_division)
            ELSE /\ run' = [run EXCEPT ![j].pc = "done", ![j].result = Some(result)]
                 /\ IF r.has_job
                    THEN /\ job_status' = [job_status EXCEPT
                                             ![j] = JobCompleted(@, result, now)]
                         /\ now' = now + 1
                    ELSE UNCHANGED <<job_status, now>>
                 /\ cur' = "idle"
    /\ response' = None
    /\ last_batch' = NoBatch
    /\ UNCHANGED <<processor, initialization_error, qdrant, store_calls>>
    /\ UNCHANGED <<service_vars, unit_vars>>

\* ------------------------------------------------------- specification

Next ==
    \/ \E j \in JobIds, batch_size \in BatchSizes, max_workers \in WorkerCounts,
          outcome \in InitOutcomes :
         process_materials(j, batch_size, max_workers, outcome)
    \/ \E j \in JobIds, batch_size \in BatchSizes, max_workers \in WorkerCounts,
          progress_callback \in CallerCallbacks :
         service_process_all_materials(j, batch_size, max_workers, progress_callback)
    \/ \E j \in JobIds : get_job_status(j)
    \/ \E j \in JobIds : background_start(j)
    \/ \E j \in JobIds : fetch_materials_ok(j)
    \/ \E j \in JobIds : fetch_materials_error(j)
    \/ \E j \in JobIds : init_collection_step(j)
    \/ \E j \in JobIds : process_batch(j)
    \/ \E j \in JobIds : progress_step(j)
    \/ \E j \in JobIds : delay_step(j)
    \/ \E j \in JobIds : wake(j)
    \/ \E j \in JobIds : range_error(j)
    \/ \E j \in JobIds : finish(j)

Spec == Init /\ [][Next]_vars

\* A step of job j's background task.  The event loop runs every task that is
\* ready, the fetch ends (with a response or an error) and the sleep returns.
TaskStep(j) ==
    \/ background_start(j)
    \/ fetch_materials_ok(j)
    \/ fetch_materials_error(j)
    \/ init_collection_step(j)
    \/ process_batch(j)
    \/ progress_step(j)
    \/ delay_step(j)
    \/ wake(j)
    \/ range_error(j)
    \/ finish(j)

FairSpec == Spec /\ \A j \in JobIds : WF_vars(TaskStep(j))

\* ------------------------------------------------- jobs that run at once

\* Two POST /process-materials requests, each with its background task, and
\* polls of both jobs.  The tasks share the event loop: one runs while the
\* other awaits its fetch or its inter-batch sleep, and a poll is served
\* whenever the loop is free.  The runs followed are those over catalogs of
\* these sizes, in batches of these sizes, with a pool of two workers.
ConcurrentCatalogSizes == {0, 1, 2}

ConcurrentBatchSizes == {1, 2}

ConcurrentInit == InitFor(ConcurrentJobs)

ConcurrentNext ==
    \/ \E j \in ConcurrentJobs, batch_size \in ConcurrentBatchSizes,
          outcome \in InitOutcomes :
         process_materials(j, batch_size, 2, outcome)
    \/ \E j \in ConcurrentJobs : get_job_status(j)
    \/ \E j \in ConcurrentJobs : background_start(j)
    \/ \E j \in ConcurrentJobs :
         fetch_materials_ok(j) /\ Len(run'[j].materials) \in ConcurrentCatalogSizes
    \/ \E j \in ConcurrentJobs : fetch_materials_error(j)
    \/ \E j \in ConcurrentJobs : init_collection_step(j)
    \/ \E j \in ConcurrentJobs : process_batch(j)
    \/ \E j \in ConcurrentJobs : progress_step(j)
    \/ \E j \in ConcurrentJobs : delay_step(j)
    \/ \E j \in ConcurrentJobs : wake(j)
    \/ \E j \in ConcurrentJobs : finish(j)

ConcurrentSpec == ConcurrentInit /\ [][ConcurrentNext]_vars

\* ------------------------------------------------------------ JobService

\* The ids create_job hands out (uuid4 tokens: none is handed out twice).
RegistryIds == {"r1"}

\* The ids callers pass to get_job and update_job: "r0" is never handed out.
LookupIds == RegistryIds \cup {"r0"}

\* The arguments of update_job that callers pass; None is the omitted argument.
StatusArgs == {None, Some("running"), Some("completed"), Some("failed")}

MessageArgs == {None, Some("note")}

CounterArgs == {None, Some(1)}

\* max_age_hours of cleanup_old_jobs.
MaxAges == {0, 24}

\* JobService.create_job: the record a new job starts with.
create_job_record ==
    [status |-> "queued", progress |-> 0, message |-> "Job queued",
     start_time |-> None, end_time |-> None, error |-> None,
     processed |-> 0, failed |-> 0, total |-> 0]

\* Variant: every terminal status stamps end_time again.
update_job_timestamps_restamp(job, status, t) ==
    IF status = Some("running") /\ Falsy(job.start_time)
    THEN [job EXCEPT !.start_time = Some(t)]
    ELSE IF status \in {Some("completed"), Some("failed")}
    THEN [job EXCEPT !.end_time = Some(t)]
    ELSE job

\* JobService.update_job, the timestamps: start_time at the first running
\* status, end_time at the first terminal status.
update_job_timestamps(job, status, t) ==
    IF status = Some("running") /\ Falsy(job.start_time)
    THEN [job EXCEPT !.start_time = Some(t)]
    ELSE IF status \in {Some("completed"), Some("failed")} /\ Falsy(job.end_time)
    THEN [job EXCEPT !.end_time = Some(t)]
    ELSE job

\* JobService.update_job, the fields: every argument that is not None is
\* assigned.
update_job_fields(job, status, progress, message, error, processed, failed, total) ==
    [job EXCEPT !.status = IF status # None THEN status[1] ELSE @,
                !.progress = IF progress # None THEN progress[1] ELSE @,
                !.message = IF message # None THEN message[1] ELSE @,
                !.error = IF error # None THEN error ELSE @,
                !.processed = IF processed # None THEN processed[1] ELSE @,
                !.failed = IF failed # None THEN failed[1] ELSE @,
                !.total = IF total # None THEN total[1] ELSE @]

\* Variant: an unknown id is answered with a fresh queued record.
get_job_value_default(js, job_id, t) ==
    LET status == IF job_id \in DOMAIN js THEN js[job_id] ELSE create_job_record
    IN Some([job |-> status,
             duration |-> IF Falsy(status.start_time) THEN None
                          ELSE IF ~Falsy(status.end_time)
                          THEN Some(status.end_time[1] - status.start_time[1])
                          ELSE Some(t - status.start_time[1])])

\* JobService.get_job: None for an unknown id, else a copy of the record with
\* the duration added once the job has started.
get_job_value(js, job_id, t) ==
    IF job_id \notin DOMAIN js THEN None
    ELSE LET status == js[job_id]
         IN Some([job |-> status,
                  duration |-> IF Falsy(status.start_time) THEN None
                               ELSE IF ~Falsy(status.end_time)
                               THEN Some(status.end_time[1] - status.start_time[1])
                               ELSE Some(t - status.start_time[1])])

\* JobService.create_job.
create_job(job_id) ==
    /\ job_id \notin issued
    /\ issued' = issued \cup {job_id}
    /\ jobs' = (job_id :> create_job_record) @@ jobs
    /\ last_op' = Some([name |-> "create_job", job_id |-> job_id,
                        returned |-> Some(job_id)])
    /\ UNCHANGED <<held, now, observed, hits>>
    /\ UNCHANGED <<pipeline_vars, unit_vars>>

\* JobService.get_job: the caller keeps what it returns.
get_job(job_id) ==
    LET value == get_job_value(jobs, job_id, now) IN
    /\ held' = IF value = None THEN None
               ELSE [kind |-> "snapshot", job_id |-> job_id, value |-> value[1]]
    /\ last_op' = Some([name |-> "get_job", job_id |-> job_id, returned |-> value])
    /\ UNCHANGED <<jobs, issued, now, observed, hits>>
    /\ UNCHANGED <<pipeline_vars, unit_vars>>

\* JobService.update_job: logged and ignored for an unknown id; else the
\* timestamps, then the fields.
update_job(job_id, status, progress, message, error, processed, failed, total) ==
    /\ IF job_id \notin DOMAIN jobs
       THEN UNCHANGED <<jobs, now>>
       ELSE LET stamped == update_job_timestamps(jobs[job_id], status, now)
                job == update_job_fields(stamped, status, progress, message, error,
                                         processed, failed, total)
            IN /\ jobs' = [jobs EXCEPT ![job_id] = job]
               /\ now' = IF stamped # jobs[job_id] THEN now + 1 ELSE now
    /\ last_op' = Some([name |-> "update_job", job_id |-> job_id, returned |-> None])
    /\ UNCHANGED <<issued, held, observed, hits>>
    /\ UNCHANGED <<pipeline_vars, unit_vars>>

\* JobService.list_jobs: returns self.jobs itself, which the caller keeps.
list_jobs ==
    /\ held' = [kind |-> "alias", job_id |-> "all", value |-> jobs]
    /\ last_op' = Some([name |-> "list_jobs", job_id |-> "all", returned |-> None])
    /\ UNCHANGED <<jobs, issued, now, observed, hits>>
    /\ UNCHANGED <<pipeline_vars, unit_vars>>

\* Variant: the status of a job is not looked at.
jobs_to_remove_any_status(js, max_age_hours, current_time) ==
    {job_id \in DOMAIN js :
        /\ ~Falsy(js[job_id].end_time)
        /\ current_time - js[job_id].end_time[1] > max_age_hours * 3600}

\* cleanup_old_jobs, the first loop: the completed or failed jobs with an
\* end_time whose age in hours, (current_time - end_time) / 3600, is above
\* max_age_hours.
jobs_to_remove(js, max_age_hours, current_time) ==
    {job_id \in DOMAIN js :
        /\ js[job_id].status \in {"completed", "failed"}
        /\ ~Falsy(js[job_id].end_time)
        /\ current_time - js[job_id].end_time[1] > max_age_hours * 3600}

\* JobService.cleanup_old_jobs: terminal jobs whose end_time is more than
\* max_age_hours old are deleted.
cleanup_old_jobs(max_age_hours) ==
    LET old == jobs_to_remove(jobs, max_age_hours, now)
    IN /\ jobs' = [job_id \in DOMAIN jobs \ old |-> jobs[job_id]]
       /\ last_op' = Some([name |-> "cleanup_old_jobs", job_id |-> "all",
                           max_age_hours |-> max_age_hours, returned |-> None])
       /\ UNCHANGED <<issued, held, now, observed, hits>>
       /\ UNCHANGED <<pipeline_vars, unit_vars>>

\* A caller writes into the value it was given (value[...]["message"] = ...):
\* a copy is the caller's own, the dict list_jobs returned is the registry's.
caller_writes ==
    /\ held # None
    /\ IF held.kind = "snapshot"
       THEN /\ held' = [held EXCEPT !.value.job.message = "edited"]
            /\ UNCHANGED jobs
       ELSE /\ \E job_id \in DOMAIN jobs :
                 jobs' = [jobs EXCEPT ![job_id].message = "edited"]
            /\ UNCHANGED held
    /\ last_op' = Some([name |-> "caller_writes", job_id |-> "all", returned |-> None])
    /\ UNCHANGED <<issued, now, observed, hits>>
    /\ UNCHANGED <<pipeline_vars, unit_vars>>

RegistryInit ==
    /\ Init
    /\ qdrant = [collection |-> Some(VectorParams(vector_size)), points |-> << >>]

RegistryNext ==
    \/ \E job_id \in RegistryIds : create_job(job_id)
    \/ \E job_id \in LookupIds : get_job(job_id)
    \/ \E job_id \in LookupIds, status \in StatusArgs, message \in MessageArgs,
          processed \in CounterArgs :
         update_job(job_id, status, None, message, None, processed, None, None)
    \/ list_jobs
    \/ \E max_age_hours \in MaxAges : cleanup_old_jobs(max_age_hours)
    \/ caller_writes
    \/ \E j \in JobIds : get_job_status(j)

RegistrySpec == RegistryInit /\ [][RegistryNext]_vars

\* ------------------------------------------------- store gateway and search

\* Catalog records sent to the gateway: with or without an id, the stock
\* status as the source spells it.
Items ==
    {[id |-> 1, materialNo |-> "M-1", type |-> "RAW", stockStatus |-> st] :
        st \in {"critical", "Critical"}}
    \cup {[materialNo |-> "M-0", type |-> "RAW", stockStatus |-> st] :
        st \in {"critical", "Critical"}}

\* The batches handed to upsert_vectors in one call: one or two records.
Batches == UNION {[1 .. n -> Items] : n \in {1, 2}}

\* Similarity scores (tenths) the store computes, the thresholds and limits of
\* requests.
Scores == {4, 6, 8}

Thresholds == {5}

Limits == {1, 2}

\* The filters argument of MaterialService.search_similar (None and {} are
\* the empty function).
Filters ==
    {<< >>,
     [stockStatus |-> "critical"],
     [stockStatus |-> "Critical"],
     [stockStatus |-> " critical "],
     [stockStatus |-> ""],
     [stockStatus |-> "critical", type |-> "RAW"]}

\* search_similar: the must conditions built from the filters: entries with a
\* falsy value are skipped, the others match val.strip().lower().
must_conditions(filters) ==
    [key \in {k \in DOMAIN filters : filters[k] # ""} |-> Lower(Strip(filters[key]))]

\* qdrant_client.search: the points that satisfy every must condition and
\* score at least score_threshold, best first, at most limit of them; points
\* of equal score come in either order.
StoreSearch(points, score, must, limit, score_threshold) ==
    LET cands == {id \in DOMAIN points :
                    /\ score[id] >= score_threshold
                    /\ \A key \in DOMAIN must :
                          key \in DOMAIN points[id] /\ points[id][key] = must[key]}
        n == Min(limit, Cardinality(cands))
        orders == {r \in [1 .. n -> cands] :
                     /\ \A a, b \in 1 .. n : a < b => r[a] # r[b]
                     /\ \A a, b \in 1 .. n : a < b => score[r[a]] >= score[r[b]]
                     /\ \A id \in cands :
                           (\A a \in 1 .. n : r[a] # id)
                           => \A a \in 1 .. n : score[r[a]] >= score[id]}
    IN {[m \in 1 .. n |-> [id |-> r[m], score |-> score[r[m]], payload |-> points[r[m]]]] :
            r \in orders}

\* Variant: the formatted results are listed by point id.
RECURSIVE format_results_by_id(_)
format_results_by_id(results) ==
    IF results = <<>> THEN <<>>
    ELSE LET low == CHOOSE m \in 1 .. Len(results) :
                        \A k \in 1 .. Len(results) : results[m].id <= results[k].id
             rest == [k \in 1 .. Len(results) - 1 |->
                         IF k < low THEN results[k] ELSE results[k + 1]]
         IN <<results[low]>> \o format_results_by_id(rest)

\* api.search_materials: id, score and payload of each result, in the order
\* search_similar returned them.
format_results(results) ==
    [m \in 1 .. Len(results) |->
        [id |-> results[m].id, score |-> results[m].score, payload |-> results[m].payload]]

\* The id a catalog record is known by: its id field, 0 when it has none.
RecordId(rec) == IF "id" \in DOMAIN rec THEN rec.id ELSE 0

\* The record ingested last under a record id, given the records ingested
\* before and the records of one more batch, in catalog order; and whether it
\* took the place of a different record ingested earlier under the same id.
LastIngested(before, records, id) ==
    LET same == SelectSeq(records, LAMBDA rec : RecordId(rec) = id)
        all == {same[m] : m \in 1 .. Len(same)}
                   \cup (IF id \in DOMAIN before THEN {before[id].record} ELSE {})
    IN IF same = <<>> THEN before[id]
       ELSE [record |-> same[Len(same)],
             rewritten |-> \/ Cardinality(all) > 1
                           \/ (id \in DOMAIN before /\ before[id].rewritten)]

\* A chunk of some run reaches the gateway: MaterialService.process_item on
\* each record, then upsert_vectors on the vector data (`upsert_ok`: the store
\* can be reached; it refuses points for a collection it does not have).
upsert_batch(batch, upsert_ok) ==
    LET vector_data == [m \in 1 .. Len(batch) |-> service_process_item(batch[m])]
        built == {vector_data[m].id : m \in 1 .. Len(batch)}
        stored == upsert_ok /\ qdrant.collection # None
        up == upsert_vectors(qdrant, vector_data, built, stored)
        ingested == IF stored THEN batch ELSE <<>>
        ids == DOMAIN observed \cup {RecordId(ingested[m]) : m \in 1 .. Len(ingested)}
    IN /\ qdrant' = up.qdrant
       /\ observed' = [id \in ids |-> LastIngested(observed, ingested, id)]
       /\ hits' = None
       /\ UNCHANGED <<processor, initialization_error, job_status, run, cur, now,
                      response, store_calls, last_batch, jobs, issued, held, last_op>>
       /\ UNCHANGED unit_vars

\* MaterialService.search_similar: the query is encoded (`score`: the
\* similarity of each stored point to it), the filter is built, the store
\* searched and its answer returned as it is; a store failure (the store is
\* not reached, or has no such collection) is re-raised.
service_search_similar(filters, limit, score_threshold, score, search_ok) ==
    /\ IF search_ok /\ qdrant.collection # None
       THEN \E answer \in StoreSearch(qdrant.points, score, must_conditions(filters),
                                      limit, score_threshold) :
              hits' = Some([via |-> "service", filters |-> filters, limit |-> limit,
                            score_threshold |-> score_threshold, score |-> score,
                            code |-> 200, gateway |-> answer, results |-> answer])
       ELSE hits' = Some([via |-> "service", filters |-> << >>, limit |-> 0,
                          score_threshold |-> 0, score |-> << >>,
                          code |-> 500, gateway |-> <<>>, results |-> <<>>])
    /\ UNCHANGED <<processor, initialization_error, job_status, run, cur, qdrant, now,
                   response, store_calls, last_batch, jobs, issued, held, last_op,
                   observed>>
    /\ UNCHANGED unit_vars

\* POST /search: 500 when the processor is not initialized or the search
\* raises (the store is not reached, or has no such collection); else
\* processor.search_similar (no filter) and the formatted results.
search_materials(limit, score_threshold, score, outcome, search_ok) ==
    LET g == ensure_processor_initialized(outcome) IN
    /\ processor' = g[1]
    /\ initialization_error' = g[2]
    /\ IF g[2] # None \/ g[1] = "None" \/ ~search_ok \/ qdrant.collection = None
       THEN hits' = Some([via |-> "api", filters |-> << >>, limit |-> 0,
                          score_threshold |-> 0, score |-> << >>,
                          code |-> 500, gateway |-> <<>>, results |-> <<>>])
       ELSE \E answer \in StoreSearch(qdrant.points, score, << >>, limit, score_threshold) :
              hits' = Some([via |-> "api", filters |-> << >>, limit |-> limit,
                            score_threshold |-> score_threshold, score |-> score,
                            code |-> 200, gateway |-> answer,
                            results |-> format_results(answer)])
    /\ UNCHANGED <<job_status, run, cur, qdrant, now, response, store_calls, last_batch,
                   jobs, issued, held, last_op, observed>>
    /\ UNCHANGED unit_vars

StoreInit ==
    /\ Init
    /\ qdrant = [collection |-> Some(VectorParams(vector_size)), points |-> << >>]

StoreNext ==
    \/ \E batch \in Batches, upsert_ok \in BOOLEAN : upsert_batch(batch, upsert_ok)
    \/ \E filters \in Filters, limit \in Limits, score_threshold \in Thresholds,
          score \in [DOMAIN qdrant.points -> Scores], search_ok \in BOOLEAN :
         service_search_similar(filters, limit, score_threshold, score, search_ok)
    \/ \E limit \in Limits, score_threshold \in Thresholds,
          score \in [DOMAIN qdrant.points -> Scores], outcome \in InitOutcomes,
          search_ok \in BOOLEAN :
         search_materials(limit, score_threshold, score, outcome, search_ok)

StoreSpec == StoreInit /\ [][StoreNext]_vars

\* ------------------------------------------- requests and initialization

\* The four endpoints that initialize the processor at first use, and the
\* job status request, called in any order.  No handler awaits anything
\* before it has answered or created the job record, so each request is one
\* step.
RequestNext ==
    \/ \E outcome \in InitOutcomes : warehouse_root(outcome)
    \/ \E outcome \in InitOutcomes, encode_ok \in BOOLEAN, deps_ok \in BOOLEAN,
          deps_again_ok \in BOOLEAN :
         health_check(outcome, encode_ok, deps_ok, deps_again_ok)
    \/ \E j \in JobIds, batch_size \in BatchSizes, max_workers \in WorkerCounts,
          outcome \in InitOutcomes :
         process_materials(j, batch_size, max_workers, outcome)
    \/ \E limit \in Limits, score_threshold \in Thresholds,
          score \in [DOMAIN qdrant.points -> Scores], outcome \in InitOutcomes,
          search_ok \in BOOLEAN :
         search_materials(limit, score_threshold, score, outcome, search_ok)
    \/ \E j \in JobIds : get_job_status(j)

RequestSpec == Init /\ [][RequestNext]_vars

\* ------------------------------------------------- init_collection, repeated

\* The pipelines of one process that call init_collection, each once.
InitCallers == {"p1", "p2", "p3"}

\* The two implementations of the pipeline.
Impls == {"processor", "service"}

\* One pipeline's init_collection call.  The call has no await between
\* get_collections and create_collection, so on the event loop it runs as one
\* step; the calls of different pipelines follow each other in any order.
ensure_collection(caller, impl, fault) ==
    /\ caller \notin DOMAIN ensured
    /\ LET r == init_collection(impl, qdrant, fault)
       IN /\ qdrant' = r.qdrant
          /\ ensured' = [c \in DOMAIN ensured \cup {caller} |->
                           IF c = caller
                           THEN [impl |-> impl, fault |-> fault,
                                 before |-> qdrant.collection,
                                 after |-> r.qdrant.collection,
                                 raised |-> r.raised, failed_call |-> r.failed_call,
                                 calls |-> r.calls]
                           ELSE ensured[c]]
    /\ UNCHANGED <<processor, initialization_error, job_status, run, cur, now,
                   response, store_calls, last_batch>>
    /\ UNCHANGED <<service_vars, doc, pool>>

CollectionNext ==
    \E caller \in InitCallers, impl \in Impls, fault \in StoreFaults :
        ensure_collection(caller, impl, fault)

CollectionSpec == Init /\ [][CollectionNext]_vars

\* ------------------------------------------------ text building and encoding

\* JSON null: the value of a key that is present and None.
Null == "null"

\* The record fields followed through the text builders: one read plainly,
\* one with a default text, one upper-cased, one lower-cased to pick the
\* stock sentence.
BuilderFields == {"materialNo", "description", "type", "stockStatus"}

FieldValues == [materialNo |-> "M-1", description |-> "Bolt", type |-> "raw",
                stockStatus |-> "Critical"]

\* The records: every field is present with its value, present and null, or
\* missing.
BuilderItems ==
    UNION {{[f \in F |-> IF f \in N THEN Null ELSE FieldValues[f]] : N \in SUBSET F} :
              F \in SUBSET BuilderFields}

\* Query texts as token sequences; a caller may have put a role prefix first.
QueryTexts == {<<"baut">>, <<"query:", "baut">>, <<"passage:", "baut">>,
               <<"query:", "passage:", "baut">>, <<"passage:", "passage:", "baut">>}

\* item.get(key, default): the default stands in for a missing key only.
Get(item, key, default) == IF key \in DOMAIN item THEN item[key] ELSE default

\* str.upper() on the values that occur.
Upper(val) == IF val = "raw" THEN "RAW" ELSE val

\* A value inside an f-string: None prints as "None".
Fmt(val) == IF val = Null THEN "None" ELSE val

\* The sentence MaterialService.create_text_representation opens the stock
\* part with, by status.
StatusPhrase(status) ==
    CASE status = "critical" -> "Stok kritis"
      [] status = "over" -> "Stok berlebih"
      [] status = "normal" -> "Stok normal"
      [] OTHER -> "Stok material"

\* MaterialService.create_text_representation, as the sequence of the parts
\* that depend on the fields followed.  `.upper()` and `.lower()` on None raise
\* AttributeError, which the except branch turns into the fallback text.
service_create_text_representation(item) ==
    LET material_no == Get(item, "materialNo", "N/A")
        description == Get(item, "description", "Tanpa deskripsi")
        item_type == Get(item, "type", "N/A")
        status == Get(item, "stockStatus", "unknown")
    IN IF item_type = Null \/ status = Null
       THEN <<"Material", Fmt(Get(item, "materialNo", "Unknown")),
              Fmt(Get(item, "description", "No description"))>>
       ELSE <<"Material", Upper(item_type), Fmt(material_no), Fmt(description),
              "Tipe material", Upper(item_type),
              StatusPhrase(Lower(status)), Upper(item_type)>>

\* MaterialVectorProcessor.create_text_representation: one f-string with ''
\* for a missing key, then `' '.join(text.split())`, which drops the empty
\* places.
create_text_representation(item) ==
    SelectSeq(<<"Material dengan kode", Fmt(Get(item, "materialNo", "")),
                "yaitu", Fmt(Get(item, "description", "")),
                "tipe", Fmt(Get(item, "type", "")),
                "berstatus", Fmt(Get(item, "stockStatus", ""))>>,
              LAMBDA part : part # "")

\* MaterialService._prepare_text_for_e5: an existing role prefix is cut off
\* and the prefix of query_type is put first.
prepare_text_for_e5(text, query_type) ==
    LET body == IF text # <<>> /\ Head(text) \in {"query:", "passage:"}
                THEN Tail(text) ELSE text
    IN <<IF query_type = "query" THEN "query:" ELSE "passage:">> \o body

\* What model.encode is given when a document is encoded: the service
\* prepares the text as a passage, the processor passes it as it is.
document_encode_input(impl, text) ==
    IF impl = "service" THEN prepare_text_for_e5(text, "passage") ELSE text

\* What model.encode is given when a query is encoded.
query_encode_input(impl, query_text) ==
    IF impl = "service" THEN prepare_text_for_e5(query_text, "query") ELSE query_text

\* process_item on one record: the text is built and encoded, then the
\* vector data is put together.  The service lower-cases item.get('type'),
\* which raises for a missing or null type; any exception gives None.
process_item_call(impl, item, encode_ok) ==
    /\ LET text == IF impl = "service" THEN service_create_text_representation(item)
                   ELSE create_text_representation(item)
           result ==
               IF ~encode_ok THEN None
               ELSE IF impl = "service"
               THEN IF Get(item, "type", Null) = Null THEN None
                    ELSE Some([text |-> text, type |-> Lower(item.type)])
               ELSE Some([text |-> text, type |-> Get(item, "type", Null)])
       IN doc' = Some([op |-> "process_item", impl |-> impl, input |-> item,
                       text |-> text, encode_ok |-> encode_ok,
                       encoded |-> document_encode_input(impl, text),
                       result |-> result])
    /\ UNCHANGED <<processor, initialization_error, job_status, run, cur, qdrant, now,
                   response, store_calls, last_batch>>
    /\ UNCHANGED <<service_vars, ensured, pool>>

\* search_similar up to the encoding of the query text.
search_similar_encode(impl, query_text) ==
    /\ doc' = Some([op |-> "search_similar", impl |-> impl, input |-> query_text,
                    text |-> query_text, encode_ok |-> TRUE,
                    encoded |-> query_encode_input(impl, query_text),
                    result |-> None])
    /\ UNCHANGED <<processor, initialization_error, job_status, run, cur, qdrant, now,
                   response, store_calls, last_batch>>
    /\ UNCHANGED <<service_vars, ensured, pool>>

BuilderNext ==
    \/ \E impl \in Impls, item \in BuilderItems, encode_ok \in BOOLEAN :
         process_item_call(impl, item, encode_ok)
    \/ \E impl \in Impls, query_text \in QueryTexts :
         search_similar_encode(impl, query_text)

BuilderSpec == Init /\ [][BuilderNext]_vars

\* ------------------------------------------- the worker pool of a batch

\* The runs followed thread by thread: catalog sizes, batch sizes and pool
\* sizes.
PoolCatalogSizes == {2, 3, 4}
PoolBatchSizes == {1, 2}
PoolWorkers == {1, 2}

\* The positions of the records of these catalogs.
PoolItems == UNION {1 .. total : total \in PoolCatalogSizes}

\* The positions of the batch materials[i:i + batch_size] of a pool run.
PoolBatch(p) == (p.i + 1) .. Min(p.i + p.batch_size, p.total)

\* The process_item calls a worker thread is inside of.
Running(p) == {k \in 1 .. p.total : p.task[k] \in {"running", "hung"}}

\* The process_item calls that have returned.
Finished(p) == {k \in 1 .. p.total : p.task[k] \in {"vector", "none"}}

\* MaterialService.process_all_materials has fetched `total` records and
\* calls self.init_collection(): the collection is created when absent, and
\* the run enters the loop, or init_collection raises (`fault`: the store
\* call that fails; a collection of another size) and the run ends there.
pool_start(total, batch_size, max_workers, fault) ==
    /\ pool = None
    /\ LET r == service_init_collection(qdrant, fault)
       IN /\ qdrant' = r.qdrant
          /\ pool' = Some([total |-> total, batch_size |-> batch_size,
                           max_workers |-> max_workers, i |-> 0,
                           phase |-> IF r.raised # None THEN "raised" ELSE "submit",
                           task |-> [k \in 1 .. total |-> "new"], future |-> 0,
                           results |-> <<>>, timed_out |-> {}, closed |-> {},
                           total_processed |-> 0, total_failed |-> 0])
    /\ UNCHANGED <<processor, initialization_error, job_status, run, cur, now,
                   response, store_calls, last_batch>>
    /\ UNCHANGED <<service_vars, ensured, doc>>

\* process_batch_parallel: `executor.submit(self.process_item, item)` for the
\* next item of the batch, the first one in a new executor with an empty
\* result list.  The item is queued, and a worker thread may take it while the
\* main thread submits the items after it; after the last submit the main
\* thread turns to the first future.
executor_submit ==
    /\ pool # None
    /\ LET p == pool[1]
           waiting == {k \in PoolBatch(p) : p.task[k] = "new"}
       IN /\ p.phase = "submit"
          /\ waiting # {}
          /\ LET k == CHOOSE m \in waiting : \A o \in waiting : m <= o
             IN pool' = Some([p EXCEPT
                    !.task[k] = "queued",
                    !.results = IF k = p.i + 1 THEN <<>> ELSE @,
                    !.timed_out = IF k = p.i + 1 THEN {} ELSE @,
                    !.future = p.i + 1,
                    !.phase = IF waiting = {k} THEN "collect" ELSE "submit"])
    /\ UNCHANGED <<processor, initialization_error, job_status, run, cur, qdrant, now,
                   response, store_calls, last_batch>>
    /\ UNCHANGED <<service_vars, ensured, doc>>

\* A worker thread of the batch's executor, of which there are max_workers,
\* takes the oldest queued item and enters process_item; `hangs`: its encode
\* call will never return.
worker_start(k, hangs) ==
    /\ pool # None
    /\ LET p == pool[1]
       IN /\ k \in DOMAIN p.task
          /\ p.task[k] = "queued"
          /\ \A m \in 1 .. (k - 1) : p.task[m] # "queued"
          /\ Cardinality(Running(p) \cap PoolBatch(p)) < p.max_workers
          /\ pool' = Some([p EXCEPT !.task[k] = IF hangs THEN "hung" ELSE "running"])
    /\ UNCHANGED <<processor, initialization_error, job_status, run, cur, qdrant, now,
                   response, store_calls, last_batch>>
    /\ UNCHANGED <<service_vars, ensured, doc>>

\* process_item returns in its thread: vector data, or None after an
\* exception it caught.
worker_finish(k, result) ==
    /\ pool # None
    /\ LET p == pool[1]
       IN /\ k \in DOMAIN p.task
          /\ p.task[k] = "running"
          /\ pool' = Some([p EXCEPT !.task[k] = result])
    /\ UNCHANGED <<processor, initialization_error, job_status, run, cur, qdrant, now,
                   response, store_calls, last_batch>>
    /\ UNCHANGED <<service_vars, ensured, doc>>

\* The main thread after future.result(timeout=30) of the current future,
\* which returned (`timeout` false) or raised TimeoutError: the next future,
\* or the end of the with block after the last one.
Collected(p, timeout) ==
    [p EXCEPT !.results = IF ~timeout /\ p.task[p.future] = "vector"
                          THEN Append(@, p.future) ELSE @,
              !.timed_out = IF timeout THEN @ \cup {p.future} ELSE @,
              !.future = @ + 1,
              !.phase = IF p.future + 1 \in PoolBatch(p) THEN "collect" ELSE "shutdown"]

\* future.result(timeout=30) returns the item's result, which is appended
\* when it is not None.
collect_result ==
    /\ pool # None
    /\ LET p == pool[1]
       IN /\ p.phase = "collect"
          /\ p.future \in Finished(p)
          /\ pool' = Some(Collected(p, FALSE))
    /\ UNCHANGED <<processor, initialization_error, job_status, run, cur, qdrant, now,
                   response, store_calls, last_batch>>
    /\ UNCHANGED <<service_vars, ensured, doc>>

\* The item has not returned after 30 seconds: future.result raises
\* TimeoutError, which is logged; nothing is appended for the item.
collect_timeout ==
    /\ pool # None
    /\ LET p == pool[1]
       IN /\ p.phase = "collect"
          /\ p.future \notin Finished(p)
          /\ pool' = Some(Collected(p, TRUE))
    /\ UNCHANGED <<processor, initialization_error, job_status, run, cur, qdrant, now,
                   response, store_calls, last_batch>>
    /\ UNCHANGED <<service_vars, ensured, doc>>

\* Variant: the executor is shut down without waiting for its threads.
shutdown_returns_nowait(p) == TRUE

\* The with block's exit calls executor.shutdown(wait=True), which returns
\* when every submitted item has finished, the timed-out ones too.
shutdown_returns(p) == PoolBatch(p) \subseteq Finished(p)

\* The executor has shut down: process_batch_parallel returns the results
\* (the vector data of the catalog's records at those positions), which
\* upsert_vectors writes to the store when there are any (`built`: the ids of
\* the points that can be built; `upsert_ok`: the store takes the call); the
\* counters grow, and the loop goes to the next batch or ends.
finish_batch(built, upsert_ok) ==
    /\ pool # None
    /\ LET p == pool[1]
           size == Cardinality(PoolBatch(p))
           vector_data == [m \in 1 .. Len(p.results) |->
                             service_process_item(Record(p.results[m]))]
           up == upsert_vectors(qdrant, vector_data, built, upsert_ok)
           upserted == ~up.raised
       IN /\ p.phase = "shutdown"
          /\ shutdown_returns(p)
          /\ built \subseteq {vector_data[m].id : m \in 1 .. Len(vector_data)}
          /\ qdrant' = up.qdrant
          /\ pool' = Some([p EXCEPT
                 !.total_processed = IF upserted THEN @ + Len(p.results) ELSE @,
                 !.total_failed = IF upserted THEN @ + (size - Len(p.results))
                                  ELSE @ + size,
                 !.closed = @ \cup {p.i},
                 !.i = @ + p.batch_size,
                 !.phase = IF p.i + p.batch_size < p.total THEN "submit" ELSE "done"])
    /\ UNCHANGED <<processor, initialization_error, job_status, run, cur, now,
                   response, store_calls, last_batch>>
    /\ UNCHANGED <<service_vars, ensured, doc>>

PoolNext ==
    \/ \E total \in PoolCatalogSizes, batch_size \in PoolBatchSizes,
          max_workers \in PoolWorkers, fault \in StoreFaults :
         pool_start(total, batch_size, max_workers, fault)
    \/ executor_submit
    \/ \E k \in PoolItems, hangs \in BOOLEAN :
         worker_start(k, hangs)
    \/ \E k \in PoolItems, result \in {"vector", "none"} :
         worker_finish(k, result)
    \/ collect_result
    \/ collect_timeout
    \/ \E built \in SUBSET PoolItems, upsert_ok \in BOOLEAN :
         finish_batch(built, upsert_ok)

PoolSpec == Init /\ [][PoolNext]_vars

\* ------------------------------------------------------------- properties

Jobs == DOMAIN job_status

CeilDiv(n, b) == (n + b - 1) \div b

\* The consecutive chunks of a catalog of n records for batch size b >= 1:
\* <<offset, size>> of each, all of size b except possibly a smaller last one.
ExpectedChunks(n, b) ==
    [c \in 1 .. CeilDiv(n, b) |-> <<(c - 1) * b, Min(b, n - (c - 1) * b)>>]

\* The ids of the vector data handed to upsert_vectors.
ArgIds(arg) == IF arg = None THEN {} ELSE {arg[1][m].id : m \in 1 .. Len(arg[1])}

\* The pipeline of run j is past init_collection.
Fetched(j) == run[j].pc \in {"init", "loop", "progress", "delay", "sleeping"}
              \/ (run[j].pc = "done" /\ store_calls[j].get_collections > 0)

\* C1: in every state of a job record, once total holds the catalog size,
\* processed + failed <= total (batch_size >= 1, any failure pattern).
C1_CountersWithinTotal ==
    \A j \in Jobs :
        (/\ run[j].batch_size >= 1
         /\ Fetched(j)
         /\ job_status[j].total = Len(run[j].materials))
        => job_status[j].processed + job_status[j].failed <= job_status[j].total

\* C1 witness: a completed job over 3 records in chunks of 2 in which records
\* failed both individually and with a whole chunk, and others were processed.
C1_Witness ==
    \E j \in Jobs :
        /\ job_status[j].status = "completed"
        /\ run[j].item_failures >= 1
        /\ run[j].chunk_errors >= 1
        /\ run[j].batch_size = 2
        /\ job_status[j].total = 3
        /\ job_status[j].processed >= 1
        /\ job_status[j].failed >= 1
        /\ job_status[j].processed + job_status[j].failed = 3

\* C2: while a job is running, each progress value written is >= the one it
\* replaces (batch_size >= 1, any failure pattern).
C2_ProgressMonotone ==
    [][\A j \in Jobs :
          (/\ run[j].batch_size >= 1
           /\ job_status[j].status = "running"
           /\ job_status'[j].status = "running")
          => RatLeq(job_status[j].progress, job_status'[j].progress)]_vars

\* C2 witness: a running job whose second progress update wrote 200/3 percent
\* over the 100/3 percent of the first.
C2_Witness ==
    \E j \in Jobs :
        /\ job_status[j].status = "running"
        /\ job_status[j].progress = <<200, 3>>
        /\ Len(run[j].chunks) = 2

\* C3: a run over n records with batch_size b >= 1 that returns a Summary has
\* processed the ceil(n/b) consecutive chunks in order, and when no chunk-level
\* exception occurred and k records failed encoding the Summary is total = n,
\* processed = n - k, failed = k.
C3_ChunksAndSummary ==
    \A j \in JobIds :
        (run[j].batch_size >= 1 /\ run[j].result # None)
        => LET n == Len(run[j].materials)
               k == run[j].item_failures
               summary == run[j].result[1]
           IN /\ run[j].chunks = ExpectedChunks(n, run[j].batch_size)
              /\ run[j].chunk_errors = 0
                 => /\ summary.total_materials = n
                    /\ summary.processed = n - k
                    /\ summary.failed = k

\* C3 witness: 3 records in chunks of 2 (sizes 2, 1), one record failing
\* encoding, no chunk-level exception: total 3, processed 2, failed 1, success.
C3_Witness ==
    \E j \in JobIds :
        /\ run[j].result # None
        /\ run[j].batch_size = 2
        /\ run[j].chunks = <<<<0, 2>>, <<2, 1>>>>
        /\ run[j].item_failures = 1
        /\ run[j].chunk_errors = 0
        /\ run[j].result[1] = [total_materials |-> 3, processed |-> 2, failed |-> 1,
                               success |-> TRUE]

\* C4: an empty catalog produces the Summary total = 0, processed = 0,
\* failed = 0, success = true, and the store's upsert is never invoked.
C4_EmptyCatalogSummary ==
    \A j \in JobIds :
        (run[j].result # None /\ run[j].materials = <<>>)
        => /\ run[j].result[1] = [total_materials |-> 0, processed |-> 0, failed |-> 0,
                                  success |-> TRUE]
           /\ store_calls[j].upsert = 0

\* C5: in a chunk whose worker pool started, exactly the items whose
\* process_item succeeded are handed to the chunk's upsert, the others are
\* counted as failed, and neither the chunk nor the run is aborted by them.
C5_ItemFailureIsolated ==
    [][\A j \in JobIds :
          (last_batch'.run = j /\ run[j].max_workers > 0)
          => LET b == last_batch'
                 dropped == b.items \ b.results
             IN /\ ArgIds(b.upsert_arg) = {run[j].materials[k].id : k \in b.results}
                /\ ~b.raised
                   => /\ run'[j].total_failed = run[j].total_failed + Cardinality(dropped)
                      /\ run'[j].total_processed =
                             run[j].total_processed + Cardinality(b.results)
                      /\ run'[j].pc = "progress"
                /\ run'[j].raised = None
                /\ run'[j].pc \in {"progress", "loop"}]_vars

\* C5 witness: a chunk of two records, one failing and one encoded, whose
\* upsert received the encoded one.
C5_Witness ==
    /\ last_batch.run \in JobIds
    /\ Cardinality(last_batch.items) = 2
    /\ Cardinality(last_batch.results) = 1
    /\ last_batch.upsert_arg # None
    /\ ~last_batch.raised

\* C6: when a chunk's processing raises outside item isolation, all its
\* records are added to failed and none to processed, the loop goes on to the
\* next chunk, and the run still ends with a Summary.
C6_ChunkFailureCounted ==
    /\ [][\A j \in JobIds :
             (last_batch'.run = j /\ last_batch'.raised)
             => /\ run'[j].total_failed =
                       run[j].total_failed + Cardinality(last_batch'.items)
                /\ run'[j].total_processed = run[j].total_processed
                /\ run'[j].pc = "loop"
                /\ run'[j].i = run[j].i + run[j].batch_size
                /\ run'[j].raised = None]_vars
    /\ [](\A j \in JobIds :
             (run[j].pc = "done" /\ run[j].chunk_errors >= 1)
             => /\ run[j].result # None
                /\ run[j].raised = None
                /\ run[j].chunks = ExpectedChunks(Len(run[j].materials), run[j].batch_size))

\* C7 as stated: a failing upsert store call is fatal to the job: the run stops
\* at once and the job record is failed with the error recorded.
C7_UpsertFailureFatal ==
    \A j \in Jobs :
        run[j].upsert_errors >= 1
        => /\ run[j].pc = "done"
           /\ job_status[j].status = "failed"
           /\ job_status[j].error # None

\* C7 amended: a failing upsert store call is not fatal to the job: the job is
\* never failed and records no error, every chunk of the catalog is still
\* attempted exactly once in order (no retry, later chunks processed), and the
\* job ends completed with the failed chunk's records among its failed count.
C7_UpsertFailureTolerated ==
    \A j \in Jobs :
        run[j].upsert_errors >= 1
        => /\ job_status[j].status # "failed"
           /\ job_status[j].error = None
           /\ run[j].raised = None
           /\ store_calls[j].upsert <= Len(run[j].chunks)
           /\ run[j].pc = "done"
              => /\ job_status[j].status = "completed"
                 /\ run[j].chunks =
                        ExpectedChunks(Len(run[j].materials), run[j].batch_size)
                 /\ job_status[j].failed >= run[j].upsert_errors

\* C7 witness: a completed job of two single-record chunks whose first upsert
\* failed and whose second chunk was then written to the store.
C7_Witness ==
    \E j \in Jobs :
        /\ job_status[j].status = "completed"
        /\ run[j].chunks = <<<<0, 1>>, <<1, 1>>>>
        /\ run[j].upsert_errors = 1
        /\ DOMAIN qdrant.points = {2}
        /\ job_status[j].processed = 1
        /\ job_status[j].failed = 1

\* C8: when the catalog fetch fails, the run has issued no store operation, the
\* job is failed with the error recorded, and get-job answers with that record.
C8_FetchFailureAborts ==
    \A j \in Jobs :
        (run[j].raised # None /\ run[j].raised[1] \in FetchErrors)
        => /\ run[j].pc = "done"
           /\ store_calls[j] = NoCalls
           /\ run[j].chunks = <<>>
           /\ job_status[j].status = "failed"
           /\ job_status[j].error = Some(<<"Processing failed: ", run[j].raised[1]>>)
           /\ job_status[j].end_time # None
           /\ (/\ response # None
               /\ response[1].route = "job-status"
               /\ response[1].job_id = j)
              => /\ response[1].code = 200
                 /\ response[1].body[1].job.status = "failed"
                 /\ response[1].body[1].job.error =
                        Some(<<"Processing failed: ", run[j].raised[1]>>)

\* C8 witness: get-job answered for a job whose fetch got a non-200 status.
C8_Witness ==
    \E j \in Jobs :
        /\ run[j].raised = Some(E_status)
        /\ response # None
        /\ response[1].route = "job-status"
        /\ response[1].job_id = j
        /\ response[1].code = 200

\* C9: when a store call of init_collection fails (store unreachable), the job
\* goes from running straight to failed with the error recorded, processed = 0,
\* no progress written, and no upsert attempted.
C9_StoreUnreachableAtInit ==
    \A j \in Jobs :
        run[j].init_fault # None
        => /\ run[j].pc = "done"
           /\ run[j].raised = Some(E_store)
           /\ job_status[j].status = "failed"
           /\ job_status[j].error = Some(<<"Processing failed: ", E_store>>)
           /\ job_status[j].processed = 0
           /\ job_status[j].progress = <<0, 1>>
           /\ store_calls[j].upsert = 0
           /\ run[j].chunks = <<>>

\* C9 witness: a job whose get_collections call failed after a catalog of
\* records was fetched.
C9_Witness ==
    \E j \in Jobs :
        /\ run[j].init_fault = Some("get_collections")
        /\ Len(run[j].materials) >= 1
        /\ job_status[j].status = "failed"

\* C10: on every ingestion path, a run that finds the collection configured
\* with another dimension than the embedder's fails in init_collection with the
\* configuration error, before any upsert.
C10_MismatchNeverTolerated ==
    \A j \in JobIds :
        (/\ run[j].pc \in {"loop", "progress", "delay", "sleeping", "done"}
         /\ store_calls[j].get_collections > 0
         /\ run[j].init_fault = None
         /\ qdrant.collection # None
         /\ qdrant.collection[1].size # vector_size)
        => /\ run[j].pc = "done"
           /\ run[j].raised = Some(E_mismatch)
           /\ store_calls[j].upsert = 0
           /\ run[j].has_job => job_status[j].status = "failed"

\* The order of the job statuses; both terminal statuses rank last.
StatusRank(status) ==
    CASE status = "queued" -> 0
      [] status = "running" -> 1
      [] status \in {"completed", "failed"} -> 2

\* C12: a job record is created queued and stays as created while queued (so
\* it is running by its first progress update); its status only moves forward
\* and a terminal status is never replaced; every job reaches completed or
\* failed.
C12_JobLifecycle ==
    /\ [][\A j \in JobIds :
             /\ (j \notin Jobs /\ j \in DOMAIN job_status')
                => job_status'[j].status = "queued"
             /\ (j \in Jobs)
                => /\ j \in DOMAIN job_status'
                   /\ StatusRank(job_status[j].status) <= StatusRank(job_status'[j].status)
                   /\ job_status[j].status \in {"completed", "failed"}
                      => job_status'[j].status = job_status[j].status]_vars
    /\ [](\A j \in Jobs :
             /\ job_status[j].status \in {"queued", "running", "completed", "failed"}
             /\ job_status[j].status = "queued" => job_status[j] = NewJob
             /\ job_status[j].status = "running" => job_status[j].start_time # None)
    /\ \A j \in JobIds :
          (j \in Jobs) ~> (j \in Jobs /\ job_status[j].status \in {"completed", "failed"})

\* C12 witness: a completed job that had progress updates written while it
\* was running.
C12_Witness ==
    \E j \in Jobs :
        /\ job_status[j].status = "completed"
        /\ job_status[j].start_time # None
        /\ Len(run[j].chunks) >= 2
        /\ job_status[j].processed >= 1

\* C18: for a run over n >= 1 records that returns a Summary, success is
\* false exactly when failed = n.
C18_SuccessUnlessAllFailed ==
    \A j \in JobIds :
        (run[j].result # None /\ Len(run[j].materials) >= 1)
        => LET summary == run[j].result[1]
           IN (summary.success = FALSE) <=> (summary.failed = Len(run[j].materials))

\* C18 witness: a run over 3 records that returned a Summary with one record
\* failed and success true.
C18_Witness ==
    \E j \in JobIds :
        /\ run[j].result # None
        /\ Len(run[j].materials) = 3
        /\ run[j].result[1].failed = 1
        /\ run[j].result[1].success

\* A job record as one whole update leaves it: the fields each update of the
\* background task writes together agree with one another.
WholeRecord(rec) ==
    CASE rec.status = "queued" -> rec = NewJob
      [] rec.status = "running" ->
            /\ rec.start_time # None /\ rec.end_time = None
            /\ rec.error = None /\ rec.result = None /\ rec.traceback = None
            /\ rec.failed = 0
            /\ \/ /\ rec.message = <<"Processing materials...">>
                  /\ rec.progress = <<0, 1>> /\ rec.processed = 0 /\ rec.total = 0
               \/ rec.message = <<"Processing... ", Tenths(rec.progress),
                                   rec.processed, rec.total>>
      [] rec.status = "completed" ->
            /\ rec.start_time # None /\ rec.end_time # None
            /\ rec.error = None /\ rec.result # None
            /\ rec.progress = <<100, 1>>
            /\ rec.message = <<"Processing completed successfully">>
            /\ rec.processed = rec.result[1].processed
            /\ rec.failed = rec.result[1].failed
            /\ rec.total = rec.result[1].total_materials
      [] rec.status = "failed" ->
            /\ rec.start_time # None /\ rec.end_time # None
            /\ rec.error # None /\ rec.message = rec.error[1]
            /\ rec.traceback # None /\ rec.result = None
      [] OTHER -> FALSE

\* C17: with two ingestion jobs running at once and polls of both served at
\* every point where the event loop is free, every snapshot a job-status read
\* returns is the record of the job asked for as one whole update left it,
\* with mutually consistent fields; every record is whole between any two
\* steps, and a step that writes one job's record leaves the other job's
\* record as it was.
C17_NoTornSnapshot ==
    /\ [](/\ \A k \in DOMAIN job_status : WholeRecord(job_status[k])
          /\ (/\ response # None
              /\ response[1].route = "job-status"
              /\ response[1].code = 200)
             => LET j == response[1].job_id
                    snapshot == response[1].body[1].job
                IN /\ j \in DOMAIN job_status
                   /\ snapshot = job_status[j]
                   /\ WholeRecord(snapshot))
    /\ [][\A j \in DOMAIN job_status, k \in DOMAIN job_status :
             (j # k /\ job_status'[j] # job_status[j])
             => job_status'[k] = job_status[k]]_vars

\* C17 witness: both jobs are between two batches of their runs, each after
\* a progress callback wrote 50 percent, and a poll of the first job is
\* answered with its record at that point while the second job's record
\* was written after it.
C17_Witness ==
    /\ response # None
    /\ response[1].route = "job-status"
    /\ response[1].code = 200
    /\ response[1].job_id = "j1"
    /\ run["j1"].pc = "sleeping"
    /\ run["j2"].pc = "sleeping"
    /\ response[1].body[1].job.status = "running"
    /\ response[1].body[1].job.message = <<"Processing... ", 500, 1, 2>>
    /\ job_status["j2"].status = "running"
    /\ job_status["j2"].processed = 1
    /\ job_status["j2"].start_time[1] > job_status["j1"].start_time[1]

\* The registry call of the step just taken (a step that is no registry call
\* leaves last_op, and the registry, as they are).
Called(name) == last_op' # None /\ last_op'[1].name = name

\* What a caller sees through the value it holds: its own copy, or, for the
\* dict list_jobs returned, the registry as it is now.
Visible(h, js) == IF h.kind = "alias" THEN js ELSE h.value

\* C13: no step changes a start_time or an end_time that is set: whatever
\* updates follow (repeated or different statuses, counters and messages on a
\* terminal job), each timestamp is assigned at most once.
C13_TimestampsAssignedOnce ==
    [][\A job_id \in DOMAIN jobs :
          job_id \in DOMAIN jobs'
          => /\ jobs[job_id].start_time # None
                => jobs'[job_id].start_time = jobs[job_id].start_time
             /\ jobs[job_id].end_time # None
                => jobs'[job_id].end_time = jobs[job_id].end_time]_vars

\* C13 witness: a job stamped at start (1) and at its first terminal status
\* (2) that was since updated to running again, with a counter and a message.
C13_Witness ==
    \E job_id \in DOMAIN jobs :
        /\ jobs[job_id].status = "running"
        /\ jobs[job_id].start_time = Some(1)
        /\ jobs[job_id].end_time = Some(2)
        /\ jobs[job_id].processed = 1
        /\ jobs[job_id].message = "note"

\* C14: no update takes a job from completed to failed or from failed to
\* completed.
C14_OneTerminalStatus ==
    [][\A job_id \in DOMAIN jobs :
          job_id \in DOMAIN jobs'
          => /\ ~(jobs[job_id].status = "completed" /\ jobs'[job_id].status = "failed")
             /\ ~(jobs[job_id].status = "failed" /\ jobs'[job_id].status = "completed")]_vars

\* C15: update_job with an unknown id changes no record and creates none (and
\* reads no clock); get_job with an unknown id returns None; the job-status
\* route answers 404 for an unknown id.
C15_UnknownJobId ==
    /\ [][(Called("update_job") /\ last_op'[1].job_id \notin DOMAIN jobs)
          => (jobs' = jobs /\ now' = now)]_vars
    /\ []((last_op # None /\ last_op[1].name = "get_job"
                          /\ last_op[1].job_id \notin DOMAIN jobs)
          => last_op[1].returned = None)
    /\ []((response # None /\ response[1].route = "job-status"
                           /\ response[1].job_id \notin DOMAIN job_status)
          => (response[1].code = 404 /\ response[1].body = None))

\* C15 witness: update_job was called with the unknown id while the registry
\* holds a running job.
C15_Witness ==
    /\ last_op # None
    /\ last_op[1].name = "update_job"
    /\ last_op[1].job_id = "r0"
    /\ \E job_id \in DOMAIN jobs : jobs[job_id].status = "running"

\* C16: the registry changes only in its own calls, and what a caller was
\* given does not change when update_job runs afterwards.
C16_NoMutableAlias ==
    [][/\ jobs' # jobs
          => (Called("create_job") \/ Called("update_job")
                                   \/ Called("cleanup_old_jobs"))
       /\ (held # None /\ held' = held /\ Called("update_job"))
          => Visible(held', jobs') = Visible(held, jobs)]_vars

\* C11: after any sequence of batches ingested through the gateway, the store
\* holds exactly one point per record id ingested (a record without an id
\* counts under id 0), and that point carries the payload of the record that
\* was ingested last under the id: its materialNo as materialCode and its
\* stock status as received.  The gateway's part in this is checked: the
\* point id is the record id, and the points of a batch reach the store in
\* one upsert call in catalog order with their payloads unchanged.  The
\* replace-by-id of the store's upsert is the contract of the store.
C11_LastWriteWins ==
    /\ DOMAIN qdrant.points = DOMAIN observed
    /\ \A id \in DOMAIN observed :
          /\ qdrant.points[id].materialCode = observed[id].record.materialNo
          /\ qdrant.points[id].stockStatus = observed[id].record.stockStatus

\* C11 witness: both point ids are stored and the record without an id was
\* ingested again with a different stock status, which the point now carries.
C11_Witness ==
    /\ DOMAIN qdrant.points = {0, 1}
    /\ observed[0].rewritten
    /\ observed[0].record.stockStatus = "Critical"
    /\ qdrant.points[0].stockStatus = "Critical"
    /\ qdrant.points[1].stockStatus = "critical"

\* C19: a successful search returns at most limit results, each with its
\* point's score and score >= score_threshold, in descending order of score,
\* and the caller receives the store's answer in the store's order.
C19_SearchResults ==
    (hits # None /\ hits[1].code = 200)
    => LET h == hits[1]
           r == h.results
       IN /\ Len(r) <= h.limit
          /\ \A m \in 1 .. Len(r) :
                /\ r[m].id \in DOMAIN qdrant.points
                /\ r[m].score = h.score[r[m].id]
                /\ r[m].score >= h.score_threshold
          /\ \A a, b \in 1 .. Len(r) : a < b => r[a].score >= r[b].score
          /\ Len(r) = Len(h.gateway)
          /\ \A m \in 1 .. Len(r) :
                /\ r[m].id = h.gateway[m].id
                /\ r[m].score = h.gateway[m].score
                /\ r[m].payload = h.gateway[m].payload

\* C19 witness: POST /search answered with two results, point 1 (score 8)
\* before point 0 (score 6).
C19_Witness ==
    /\ hits # None
    /\ hits[1].via = "api"
    /\ hits[1].code = 200
    /\ Len(hits[1].results) = 2
    /\ hits[1].results[1].id = 1 /\ hits[1].results[1].score = 8
    /\ hits[1].results[2].id = 0 /\ hits[1].results[2].score = 6

\* The stored points whose payload equals the given value on every filtered
\* field (all stored points when there is no filter).
Matching(points, filters) ==
    {id \in DOMAIN points :
        \A key \in DOMAIN filters :
            key \in DOMAIN points[id] /\ points[id][key] = filters[key]}

\* C20: a search of MaterialService returns only points that equal the given
\* filter values on every filtered field, and leaves out no such point that
\* scores at least the threshold unless limit better-scoring results are
\* returned.
C20_FilterExactConjunction ==
    (hits # None /\ hits[1].via = "service" /\ hits[1].code = 200)
    => LET h == hits[1]
           r == h.results
           returned == {r[m].id : m \in 1 .. Len(r)}
       IN /\ returned \subseteq Matching(qdrant.points, h.filters)
          /\ \A id \in Matching(qdrant.points, h.filters) :
                (h.score[id] >= h.score_threshold /\ id \notin returned)
                => /\ Len(r) = h.limit
                   /\ \A m \in 1 .. Len(r) : r[m].score >= h.score[id]

\* C23: a job that is queued or running can always take a further step of
\* its background task, and under fair scheduling of those steps every job
\* that was started ends completed or failed, with its task over.
C23_JobTerminates ==
    /\ [](\A j \in Jobs :
             job_status[j].status \in {"queued", "running"} => ENABLED TaskStep(j))
    /\ \A j \in JobIds :
          (j \in Jobs /\ job_status[j].status = "queued")
          ~> (/\ j \in Jobs
              /\ job_status[j].status \in {"completed", "failed"}
              /\ run[j].pc = "done")

\* C23 witness: a job over three records in chunks of one that ended after
\* two sleeps between its batches.
C23_Witness ==
    \E j \in Jobs :
        /\ job_status[j].status \in {"completed", "failed"}
        /\ run[j].pc = "done"
        /\ Len(run[j].chunks) = 3
        /\ run[j].sleeps = 2

\* C24: in a finished run that was given a progress callback, the callback
\* was called once for each chunk, the k-th call reported
\* min(100, records attempted so far / total * 100), and the last call
\* reported 100.
C24_CallbackOncePerChunk ==
    \A j \in JobIds :
        LET r == run[j]
            total == Len(r.materials)
        IN (r.pc = "done" /\ r.result # None /\ r.progress_callback # "none") =>
              /\ Len(r.callbacks) = Len(r.chunks)
              /\ \A k \in 1..Len(r.callbacks) :
                    k <= Len(r.chunks) =>
                       r.callbacks[k].progress
                          = Rat((r.chunks[k][1] + r.chunks[k][2]) * 100, total)
              /\ r.callbacks # <<>> =>
                    r.callbacks[Len(r.callbacks)].progress = <<100, 1>>

\* C25: a finished run over at least one chunk slept once after every chunk
\* but the last, whether or not the chunk failed as a whole, and not after the
\* last one.
C25_DelayAfterEveryChunkButLast ==
    \A j \in JobIds :
        LET r == run[j]
        IN (r.pc = "done" /\ r.result # None /\ r.chunks # <<>>) =>
              r.sleeps = Len(r.chunks) - 1

\* C26: a progress callback that raises changes nothing but the log: the
\* step goes on to the delay with the counters, the store and the job records
\* as they were, exactly as after a callback that returned, and a run in which
\* a callback raised ends as the run with a returning callback does: the
\* callback's exception never leaves the pipeline, and the run returns the
\* Summary of its counters unless its final statistics raise.  (It holds for
\* the exceptions of class Exception; an exception that derives from
\* BaseException only leaves the run at the callback.)
C26_CallbackErrorsIgnored ==
    /\ [](\A j \in JobIds :
             LET r == run[j]
             IN (\E k \in DOMAIN r.callbacks : r.callbacks[k].raised) =>
                   /\ r.raised \in {None, Some(E_float_division)}
                   /\ (r.pc = "done" /\ r.raised = None) =>
                         r.result = Some(Summary(Len(r.materials), r.total_processed,
                                                 r.total_failed)))
    /\ [][\A j \in JobIds :
             (/\ run[j].pc = "progress"
              /\ run'[j] # run[j]
              /\ run'[j].callbacks # run[j].callbacks
              /\ run'[j].callbacks[Len(run'[j].callbacks)].raised) =>
                /\ run'[j] = [run[j] EXCEPT !.pc = "delay",
                                            !.callbacks = run'[j].callbacks]
                /\ Len(run'[j].callbacks) \in {Len(run[j].callbacks),
                                                Len(run[j].callbacks) + 1}
                /\ cur' = j
                /\ UNCHANGED <<job_status, qdrant, store_calls>>]_vars

\* C29: in every step that handles a batch, upsert_vectors makes no store
\* call when there is no vector data or no point can be built; otherwise it
\* makes exactly one upsert call, carrying every buildable point in order.  A
\* point that cannot be built is left out, the others are written, and the
\* chunk fails only when the store call itself raises.
C29_UpsertOneCallBuildablePoints ==
    [][\A j \in JobIds :
          last_batch'.run = j =>
             LET b == last_batch'
                 arg == IF b.upsert_arg = None THEN <<>> ELSE b.upsert_arg[1]
                 buildable == SelectSeq(arg, LAMBDA d : d.id \in b.built)
                 store_raised == run'[j].upsert_errors = run[j].upsert_errors + 1
             IN /\ buildable = <<>> =>
                      /\ store_calls'[j].upsert = store_calls[j].upsert
                      /\ b.written = None
                      /\ qdrant' = qdrant
                      /\ ~store_raised
                      /\ arg # <<>> => ~b.raised
                /\ buildable # <<>> =>
                      /\ store_calls'[j].upsert = store_calls[j].upsert + 1
                      /\ b.written = Some(buildable)
                      /\ b.raised <=> store_raised
                      /\ ~b.raised =>
                            /\ DOMAIN qdrant'.points
                                  = DOMAIN qdrant.points
                                       \cup {buildable[k].id : k \in DOMAIN buildable}
                            /\ \A k \in DOMAIN buildable :
                                  qdrant'.points[buildable[k].id] = buildable[k].payload
                            /\ \A id \in DOMAIN qdrant.points \ b.built :
                                  qdrant'.points[id] = qdrant.points[id]]_vars

\* C29 witness: a batch of two encoded records of which one point could not
\* be built; the other was written by the one store call and the chunk did
\* not fail.
C29_Witness ==
    /\ last_batch.run \in JobIds
    /\ last_batch.upsert_arg # None
    /\ Len(last_batch.upsert_arg[1]) = 2
    /\ Cardinality(last_batch.built) = 1
    /\ last_batch.written # None
    /\ Len(last_batch.written[1]) = 1
    /\ ~last_batch.raised
    /\ store_calls[last_batch.run].upsert = 1
    /\ DOMAIN qdrant.points = last_batch.built

\* The number of create_collection calls in a sequence of store calls.
Creates(calls) == Cardinality({k \in DOMAIN calls : calls[k] = "create_collection"})

\* C30: init_collection is idempotent.  A call that finds no collection and
\* does not raise creates it, by one create_collection call, with the model's
\* vector size and cosine distance; a call that finds a collection leaves it
\* as it is and makes no create_collection call; a call that finds the
\* collection another pipeline created, with no store fault, does not raise.
\* Over all the calls of a process the collection is created at most once, and
\* calling again on the store a successful call left, by the same
\* implementation or on a collection of the model's vector size, changes
\* nothing.
C30_EnsureCollectionIdempotent ==
    /\ \A c \in DOMAIN ensured :
          LET e == ensured[c]
          IN /\ (e.before = None /\ e.raised = None) =>
                   /\ e.after = Some(VectorParams(vector_size))
                   /\ Creates(e.calls) = 1
             /\ e.before # None =>
                   /\ e.after = e.before
                   /\ Creates(e.calls) = 0
             /\ (e.before = Some(VectorParams(vector_size))
                   /\ e.fault \notin {"get_collections", "get_collection"}) =>
                   e.raised = None
             /\ e.raised # None =>
                   \/ e.failed_call # None
                   \/ e.before # None /\ e.before[1].size # vector_size
    /\ Cardinality({c \in DOMAIN ensured :
                       ensured[c].before = None /\ ensured[c].after # None}) <= 1
    /\ \A impl \in Impls, again \in Impls :
          LET first == init_collection(impl, qdrant, "none")
              second == init_collection(again, first.qdrant, "none")
          IN (/\ first.raised = None
              /\ again = impl \/ first.qdrant.collection[1].size = vector_size) =>
                /\ second.raised = None
                /\ second.qdrant = first.qdrant
                /\ Creates(second.calls) = 0

\* C30 witness: three pipelines of both implementations called
\* init_collection on a store without the collection; the first created it
\* and the other two found it and returned without creating or raising.
C30_Witness ==
    /\ DOMAIN ensured = InitCallers
    /\ \E c \in InitCallers :
          /\ ensured[c].before = None
          /\ ensured[c].after = Some(VectorParams(vector_size))
          /\ \A d \in InitCallers \ {c} :
                /\ ensured[d].before = Some(VectorParams(vector_size))
                /\ ensured[d].raised = None
                /\ Creates(ensured[d].calls) = 0
    /\ \E c, d \in InitCallers :
          /\ ensured[c].before # None
          /\ ensured[d].before # None
          /\ ensured[c].impl = "processor"
          /\ ensured[d].impl = "service"

\* The role a text is encoded with: that of the prefix it starts with.
EncodedRole(text) ==
    IF text # <<>> /\ Head(text) = "query:" THEN "query"
    ELSE IF text # <<>> /\ Head(text) = "passage:" THEN "passage"
    ELSE "unprefixed"

\* C21: whichever implementation encodes it, a document is encoded with the
\* passage role and a search query with the query role.
C21_RoleConvention ==
    doc # None =>
       /\ doc[1].op = "process_item" => EncodedRole(doc[1].encoded) = "passage"
       /\ doc[1].op = "search_similar" => EncodedRole(doc[1].encoded) = "query"

\* The placeholder MaterialService.create_text_representation is configured
\* with for a field.
Placeholder(field) ==
    CASE field = "materialNo" -> "N/A"
      [] field = "description" -> "Tanpa deskripsi"
      [] field = "type" -> "N/A"
      [] field = "stockStatus" -> "Stok material"

\* The parts of a text, as a set.
Parts(text) == {text[k] : k \in DOMAIN text}

\* C22: for a record with any fields missing or null the service's builder
\* returns a text that is not empty and holds the placeholder of each such
\* field, and the record is not lost when its encoding succeeds.
C22_MissingFieldsAsPlaceholders ==
    (doc # None /\ doc[1].op = "process_item" /\ doc[1].impl = "service") =>
       LET item == doc[1].input
       IN /\ doc[1].text # <<>>
          /\ \A f \in BuilderFields :
                Get(item, f, Null) = Null => Placeholder(f) \in Parts(doc[1].text)
          /\ doc[1].encode_ok => doc[1].result # None

\* C27: in a run at most max_workers process_item calls are in progress, all
\* of them on items of the current batch; no item of a later batch has been
\* submitted, every item of an earlier batch has finished, and every earlier
\* batch has been through its upsert.
C27_BoundedWorkersSequentialBatches ==
    pool # None =>
       LET p == pool[1]
       IN /\ Cardinality(Running(p)) <= p.max_workers
          /\ Running(p) \subseteq PoolBatch(p)
          /\ \A k \in 1 .. p.total :
                /\ k > p.i + p.batch_size => p.task[k] = "new"
                /\ k <= p.i => k \in Finished(p)
                /\ p.task[k] = "queued" => k \in PoolBatch(p)
          /\ p.closed = {c \in 0 .. (p.total - 1) : c < p.i /\ c % p.batch_size = 0}

\* C27 witness: in the second batch of a run with two workers both items are
\* being encoded at once, after the first batch was finished and closed.
C27_Witness ==
    /\ pool # None
    /\ pool[1].i = 2
    /\ pool[1].max_workers = 2
    /\ pool[1].closed = {0}
    /\ Running(pool[1]) = {3, 4}
    /\ pool[1].timed_out = {3}
    /\ \A k \in {1, 2} : pool[1].task[k] \in {"vector", "none"}

\* C28: a run that has not ended can always go on: an item whose encode does
\* not return is given up at its timeout and counted as failed, and does not
\* hold up the batch.
C28_HungEncodeDoesNotBlock ==
    pool # None =>
       LET p == pool[1]
       IN /\ p.phase \notin {"done", "raised"} => ENABLED PoolNext
          /\ p.phase = "done" =>
                /\ p.total_processed + p.total_failed = p.total
                /\ p.total_failed >= Cardinality({k \in 1 .. p.total : p.task[k] = "hung"})

\* The role prefixes a text starts with, counted.
RECURSIVE LeadingPrefixes(_)
LeadingPrefixes(text) ==
    IF text # <<>> /\ Head(text) \in {"query:", "passage:"}
    THEN 1 + LeadingPrefixes(Tail(text))
    ELSE 0

\* The roles of _prepare_text_for_e5.
Roles == {"query", "passage"}

\* C31: for the query text a search was given and any roles r, r2, the
\* prepared text starts with exactly one role prefix, preparing it again for
\* the same role changes nothing, and preparing for r2 first makes no
\* difference.
C31_ExactlyOnePrefix ==
    (doc # None /\ doc[1].op = "search_similar" /\ doc[1].impl = "service") =>
       LET t == doc[1].input
       IN \A r \in Roles, r2 \in Roles :
             /\ LeadingPrefixes(prepare_text_for_e5(t, r)) = 1
             /\ prepare_text_for_e5(prepare_text_for_e5(t, r), r)
                   = prepare_text_for_e5(t, r)
             /\ prepare_text_for_e5(prepare_text_for_e5(t, r2), r)
                   = prepare_text_for_e5(t, r)

\* C32: in every state, a completed job has progress 100, an end_time and no
\* error; a failed job has an error and an end_time; a queued or running job
\* has no end_time; and a job has a start_time exactly when it is not queued.
C32_JobRecordConsistent ==
    \A j \in Jobs :
        LET rec == job_status[j]
        IN /\ rec.status \in {"queued", "running", "completed", "failed"}
           /\ rec.status = "completed" =>
                 /\ rec.progress = <<100, 1>>
                 /\ rec.end_time # None
                 /\ rec.error = None
           /\ rec.status = "failed" =>
                 /\ rec.error # None
                 /\ rec.end_time # None
           /\ rec.status \in {"queued", "running"} => rec.end_time = None
           /\ rec.start_time # None <=> rec.status # "queued"

\* C32 witness: a job that completed after a chunk failed as a whole, so that
\* its last progress report was below 100, with both its timestamps.
C32_Witness ==
    \E j \in Jobs :
        /\ job_status[j].status = "completed"
        /\ job_status[j].start_time # None
        /\ job_status[j].end_time # None
        /\ run[j].chunk_errors > 0
        /\ run[j].callbacks # <<>>
        /\ run[j].callbacks[Len(run[j].callbacks)].progress # <<100, 1>>

\* C33: a job whose task is over is completed exactly when the pipeline
\* returned a Summary, whatever the Summary's success flag, and failed exactly
\* when the construction of the processor or the pipeline raised; a job is
\* completed or failed only when its task is over, and the Summary the job
\* holds is the one the pipeline returned.
C33_StatusFollowsReturnOrRaise ==
    \A j \in Jobs :
        LET rec == job_status[j]
            r == run[j]
        IN /\ rec.status \in {"completed", "failed"} <=> r.pc = "done"
           /\ r.pc = "done" =>
                 /\ (r.result # None) # (r.raised # None)
                 /\ rec.status = "completed" <=> r.result # None
                 /\ rec.status = "failed" <=> r.raised # None
                 /\ rec.result = r.result

\* C33 witness: a job is completed with a Summary over two records that both
\* failed, its success flag false.
C33_Witness ==
    \E j \in Jobs :
        /\ job_status[j].status = "completed"
        /\ job_status[j].result # None
        /\ job_status[j].result[1].total_materials = 2
        /\ job_status[j].result[1].failed = 2
        /\ ~job_status[j].result[1].success

\* C34: the processed counter of a returned Summary is the number of points
\* the run handed to upsert calls that succeeded.
C34_ProcessedWereWritten ==
    \A j \in JobIds :
        run[j].result # None =>
           run[j].result[1].processed = run[j].points_written

\* C35: in the registry a job with an end_time has a start_time, the end_time
\* is not before the start_time, and get_job never returns a negative
\* duration.
C35_EndNotBeforeStart ==
    /\ \A job_id \in DOMAIN jobs :
          jobs[job_id].end_time # None =>
             /\ jobs[job_id].start_time # None
             /\ jobs[job_id].end_time[1] >= jobs[job_id].start_time[1]
    /\ (last_op # None /\ last_op[1].name = "get_job" /\ last_op[1].returned # None) =>
          LET duration == last_op[1].returned[1].duration
          IN duration # None => duration[1] >= 0

\* C38: a cleanup_old_jobs call removes a job exactly when its status is
\* completed or failed and its end_time is more than max_age_hours before the
\* call; a queued or running job stays, and every job that stays is as it was.
C38_CleanupRemovesOldTerminalJobs ==
    [][Called("cleanup_old_jobs") =>
          LET max_age_hours == last_op'[1].max_age_hours
          IN /\ DOMAIN jobs' \subseteq DOMAIN jobs
             /\ \A job_id \in DOMAIN jobs :
                   /\ job_id \notin DOMAIN jobs' <=>
                         /\ jobs[job_id].status \in {"completed", "failed"}
                         /\ jobs[job_id].end_time # None
                         /\ now - jobs[job_id].end_time[1] > max_age_hours * 3600
                   /\ jobs[job_id].status \in {"queued", "running"} =>
                         job_id \in DOMAIN jobs'
                   /\ job_id \in DOMAIN jobs' => jobs'[job_id] = jobs[job_id]
             /\ UNCHANGED <<issued, held, now>>]_vars

\* C38 witness: a cleanup with max_age_hours = 0 has just run and a job that
\* went back to running after it had failed, and so carries an old end_time,
\* is still registered.
C38_Witness ==
    /\ last_op # None
    /\ last_op[1].name = "cleanup_old_jobs"
    /\ last_op[1].max_age_hours = 0
    /\ \E job_id \in DOMAIN jobs :
          /\ jobs[job_id].status = "running"
          /\ jobs[job_id].end_time # None
          /\ now - jobs[job_id].end_time[1] > 0

\* C36: whatever batch_size a run was started with, a Summary it returns
\* accounts for every record of the catalog: processed + failed = total.
C36_SummaryAccountsForAllRecords ==
    \A j \in JobIds :
        run[j].result # None =>
           LET summary == run[j].result[1]
           IN /\ summary.total_materials = Len(run[j].materials)
              /\ summary.processed + summary.failed = summary.total_materials

\* C37: processor and initialization_error are never both set; once either
\* is set neither changes again; and a request made while initialization_error
\* is set, or that sets it, is answered with 500 and creates no job record.
C37_InitializedAtMostOnce ==
    /\ [](~(processor = "set" /\ initialization_error # None))
    /\ [][/\ (processor = "set" \/ initialization_error # None) =>
               UNCHANGED <<processor, initialization_error>>
          /\ initialization_error' # None =>
               /\ job_status' = job_status
               /\ run' = run
               /\ (response' # None /\ response'[1].route = "process-materials")
                     => response'[1].code = 500
               /\ hits' # None => hits'[1].code = 500]_vars

\* C37 witness: initialization failed at a search request, and a later
\* start-ingestion request was rejected with no job record created.
C37_Witness ==
    /\ initialization_error = Some("constructor_failed")
    /\ processor = "None"
    /\ hits # None
    /\ hits[1].code = 500
    /\ response # None
    /\ response[1].route = "process-materials"
    /\ response[1].code = 500
    /\ job_status = << >>

====
